---- MODULE Spec2Model ----
(***************************************************************************)
(* A model of the course-generation backend (backend/app/ai):              *)
(*   - the remote-call gateway          llm.py            (SpecGateway)    *)
(*   - the compile permit set           compile_manim.py  (SpecPermit)     *)
(*   - the compile strategy cascade     compile_manim.py  (SpecCascade)    *)
(*   - the pipeline orchestrator        graph.py          (Spec)           *)
(* Each part has its own variables, initial condition and next-state       *)
(* relation; a specification leaves the other parts' variables unchanged.  *)
(***************************************************************************)
EXTENDS Integers, Sequences, FiniteSets, TLC

VARIABLES
    \* ---- remote-call gateway (llm.py) ----
    envLlmConcurrency,  \* os.getenv("LLM_CONCURRENCY"): unset, not a number, or a number
    envLlmMaxRetries,   \* os.getenv("LLM_MAX_RETRIES"): unset or a number
    semOpenrouter,      \* _sem_openrouter: None, or Some(free permits)
    chatPc,             \* per call: position inside openrouter_chat
    chatAttempt,        \* per call: the loop variable `attempt`
    chatLastErr,        \* per call: the local `last_err`
    chatHolds,          \* per call: inside `async with sem`
    chatResult,         \* per call: how the call ended
    backendReply,       \* per call: what the backend answered to the latest attempt
    backendCalls,       \* per call: number of backend attempts issued
    backendFails,       \* per call: number of backend attempts that raised
    chatSleeps,         \* per call: number of backoff sleeps started
    \* ---- compile permit set (compile_manim.py) ----
    envManimMaxParallel, \* os.getenv("MANIM_MAX_PARALLEL"): unset, not a number, or a number
    compileSem,         \* _compile_sem: None, or Some(index of a semaphore object)
    semObjects,         \* the BoundedSemaphore objects created so far: free permits of each
    jobPc,              \* per worker thread: position inside compile_manim_to_mp4
    jobSem,             \* per worker thread: the local `sem` of _limit_parallelism
    \* ---- compile strategy cascade (compile_manim.py) ----
    casEnv,             \* the flags and probes one compile job reads
    casPc,              \* position inside compile_manim_to_mp4
    casFiles,           \* output files present in the job's working directory
    casTried,           \* the strategies run so far, in order
    casResult,          \* how compile_manim_to_mp4 ended
    \* ---- pipeline orchestrator (graph.py) ----
    bEngine,            \* `from langgraph... import` succeeds
    bCb,                \* progress_cb: "none", "async" (coroutine function) or "sync"
    bCount,             \* constraints["count_modules"]
    bOwner,             \* owner_id is given (not None)
    bOffline,           \* every generative call fails, the placeholder video works
    bPath,              \* which executor drives the build: "none", "engine", "direct"
    bStage,             \* position inside build_course_graph
    bSyllabus,          \* the syllabus: the id of each entry, in order
    bTask,              \* per syllabus entry: position of its fan-out task
    bModules,           \* the modules collection of the driving executor
    bJob,               \* per module: state of its compile job
    bItems,             \* artifacts of the finished compile jobs, in completion order
    bReports,           \* the percentages handed to progress_cb, in order
    bPersist,           \* the calls of persist_course_and_modules, in order
    bPackage,           \* the CoursePackage returned, or None
    bFanoutFailed,      \* history: a fan-out task of this build has raised
    \* ---- code synthesis and validation (nodes/manim_writer.py) ----
    wModule,            \* the module dict: its title and outline
    wPc,                \* position inside write_manim_code
    wAttempt,           \* the loop variable `attempt`
    wFeedback,          \* the local `feedback`
    wCalls,             \* the feedback carried by the prompt of each gateway call
    wVerdicts,          \* history: the verdict on each attempt
    wFinal,             \* history: what the checks read of the code `return code` returned
    wResult,            \* how write_manim_code ended
    \* ---- fallback generators (nodes/manim_writer.py) ----
    fbArg,              \* the generator called and its argument
    fbResult,           \* what it returned, or that it raised
    \* ---- syllabus stage (nodes/syllabus.py) ----
    sReply,             \* what the gateway call of generate_syllabus yields
    sCount,             \* constraints.get("count_modules")
    sResult,            \* how generate_syllabus ended
    \* ---- /ai/build and /ai/stream (main.py) ----
    hPc,                \* position inside ai_build
    hConvex,            \* the course record is a Convex document
    hThread,            \* _threads[thread_id]
    hCourse,            \* status and progress of the course record
    hResponse,          \* what the request ended with
    hStream,            \* the event stream of /ai/stream for the thread
    cbRan,              \* how many of the callback tasks created by report have run
    cbLate,             \* history: a callback task ran after the build had ended
    \* ---- persistence (persist_convex.py) ----
    psEnabled,          \* convex.enabled
    psOwner,            \* owner_id is given
    psExisting,         \* existing_course_id is given
    psModules,          \* the argument `modules`
    psPc,               \* position inside persist_course_and_modules
    psIdx,              \* the module the loop is at
    psCourseId,         \* the local `course_id`
    psCreate,           \* history: how the course creation went
    psCalls,            \* history: the calls sent to the backend, in order
    psModuleIds,        \* the local `module_ids`
    psStorage,          \* the local `storage_ids`, in key order of insertion
    psResult,           \* how persist_course_and_modules ended
    \* ---- backoff schedule of one gateway call (llm.py) ----
    boRetries,          \* the local `retries`
    boAttempt,          \* the attempt that has failed last
    boDelays,           \* history: jitter drawn and delay slept after each failed attempt
    \* ---- permits taken by the tasks of one build ----
    pmCap,              \* capacity of each permit set
    pmRetries,          \* attempt budget of the gateway call and of the image call
    pmStage,            \* the build: running, failed (syllabus), raised, returned
    pmPc,               \* per activity: its position
    pmAttempt,          \* per activity: the loop variable `attempt`, inside the loop
    pmRound,            \* per activity: gateway calls entered so far, while it runs
    pmHeld,             \* per activity: the permits it holds
    pmFree              \* free permits of each set

gwVars == <<envLlmConcurrency, envLlmMaxRetries, semOpenrouter, chatPc, chatAttempt,
            chatLastErr, chatHolds, chatResult, backendReply, backendCalls,
            backendFails, chatSleeps>>

permitVars == <<envManimMaxParallel, compileSem, semObjects, jobPc, jobSem>>

casVars == <<casEnv, casPc, casFiles, casTried, casResult>>

buildVars == <<bEngine, bCb, bCount, bOwner, bOffline, bPath, bStage, bSyllabus, bTask, bModules, bJob,
               bItems, bReports, bPersist, bPackage, bFanoutFailed>>

writerVars == <<wModule, wPc, wAttempt, wFeedback, wCalls, wVerdicts, wFinal, wResult>>

fbVars == <<fbArg, fbResult>>

sylVars == <<sReply, sCount, sResult>>

handlerVars == <<hPc, hConvex, hThread, hCourse, hResponse, hStream, cbRan, cbLate>>

storeVars == <<psEnabled, psOwner, psExisting, psModules, psPc, psIdx, psCourseId, psCreate,
               psCalls, psModuleIds, psStorage, psResult>>

backoffVars == <<boRetries, boAttempt, boDelays>>

pmVars == <<pmCap, pmRetries, pmStage, pmPc, pmAttempt, pmRound, pmHeld, pmFree>>

vars == <<gwVars, permitVars, casVars, buildVars, writerVars, fbVars, sylVars, handlerVars,
          storeVars, backoffVars, pmVars>>

\* Python's None, and a value that is not None.
None == [some |-> FALSE]

Some(x) == [some |-> TRUE, val |-> x]

\* An environment variable: not set, not a number, or a number.
EnvUnset == [kind |-> "unset"]

EnvBad == [kind |-> "bad"]

EnvInt(n) == [kind |-> "int", val |-> n]

Max(a, b) == IF a >= b THEN a ELSE b

Min(a, b) == IF a <= b THEN a ELSE b

(***************************************************************************)
(* Remote-call gateway: llm.py                                             *)
(***************************************************************************)

\* Number of concurrent openrouter_chat calls of the model.
NumCalls == 2

\* Largest numeric value of LLM_CONCURRENCY the model draws.
MaxEnvConcurrency == 2

\* Largest numeric value of LLM_MAX_RETRIES the model draws.
MaxEnvRetries == 2

DefaultLlmConcurrency == 3

DefaultLlmMaxRetries == 5

Calls == 1..NumCalls

\* str.lower() on the characters that occur in the modelled messages.
UpperChars == <<"A", "B", "E", "H", "I", "K", "O", "P", "R", "T">>

LowerChars == <<"a", "b", "e", "h", "i", "k", "o", "p", "r", "t">>

LowerChar(ch) ==
    IF \E i \in 1..Len(UpperChars) : UpperChars[i] = ch
    THEN LowerChars[CHOOSE i \in 1..Len(UpperChars) : UpperChars[i] = ch]
    ELSE ch

Lower(s) == [i \in 1..Len(s) |-> LowerChar(s[i])]

\* Python's `m in msg` on strings: m occurs as a contiguous substring of msg.
Contains(msg, m) ==
    \E i \in 0..(Len(msg) - Len(m)) : SubSeq(msg, i + 1, i + Len(m)) = m

retry_markers ==
    << <<"4", "2", "9">>,
       <<"r", "a", "t", "e", " ", "l", "i", "m", "i", "t">>,
       <<"t", "o", "o", " ", "m", "a", "n", "y", " ", "r", "e", "q", "u", "e", "s", "t", "s">>,
       <<"q", "u", "o", "t", "a">>,
       <<"o", "v", "e", "r", "l", "o", "a", "d", "e", "d">>,
       <<"t", "i", "m", "e", "o", "u", "t">>,
       <<"t", "i", "m", "e", "d", " ", "o", "u", "t">>,
       <<"s", "e", "r", "v", "e", "r", " ", "e", "r", "r", "o", "r">>,
       <<"5", "0", "2">>,
       <<"5", "0", "3">>,
       <<"5", "0", "4">> >>

IsRetryableError(err) ==
    LET msg == Lower(err)
    IN  \E k \in 1..Len(retry_markers) : Contains(msg, retry_markers[k])

\* The error messages the modelled backend raises.
Err429 == <<"H", "T", "T", "P", " ", "4", "2", "9">>

ErrTimedOut == <<"R", "e", "a", "d", " ", "T", "i", "m", "e", "d", " ", "O", "u", "t">>

ErrBadKey == <<"B", "a", "d", " ", "A", "P", "I", " ", "k", "e", "y">>

BackendErrors == {Err429, ErrTimedOut, ErrBadKey}

\* What resp.choices[0].message.content can be: text, or empty/None.
BackendTexts == {"", "text"}

\* max(1, size) of _get_openrouter_semaphore, size parsed from LLM_CONCURRENCY.
LlmCapacity ==
    LET size == IF envLlmConcurrency.kind = "int"
                THEN envLlmConcurrency.val
                ELSE DefaultLlmConcurrency
    IN  Max(1, size)

\* _get_openrouter_semaphore: the permit set is created on first use.
GetOpenrouterSemaphore ==
    IF semOpenrouter = None THEN Some(LlmCapacity) ELSE semOpenrouter

\* `retries` of openrouter_chat; no caller passes max_retries, so the
\* environment decides ("" or unset gives 5).
Retries ==
    IF envLlmMaxRetries.kind = "int" THEN envLlmMaxRetries.val ELSE DefaultLlmMaxRetries

\* What a gateway step leaves alone: the other parts of the system.
GwFrame == UNCHANGED <<permitVars, casVars, buildVars, writerVars, fbVars, sylVars, handlerVars,
    storeVars, backoffVars, pmVars>>

NoReply == [kind |-> "none"]

NoResult == [kind |-> "none"]

GwInit ==
    /\ envLlmConcurrency \in {EnvUnset, EnvBad} \cup {EnvInt(n) : n \in 0..MaxEnvConcurrency}
    /\ envLlmMaxRetries \in {EnvUnset} \cup {EnvInt(n) : n \in 0..MaxEnvRetries}
    /\ semOpenrouter = None
    /\ chatPc = [c \in Calls |-> "idle"]
    /\ chatAttempt = [c \in Calls |-> 0]
    /\ chatLastErr = [c \in Calls |-> None]
    /\ chatHolds = [c \in Calls |-> FALSE]
    /\ chatResult = [c \in Calls |-> NoResult]
    /\ backendReply = [c \in Calls |-> NoReply]
    /\ backendCalls = [c \in Calls |-> 0]
    /\ backendFails = [c \in Calls |-> 0]
    /\ chatSleeps = [c \in Calls |-> 0]

\* openrouter_chat up to `async with sem`: fetch (or create) the permit set.
ChatStart(c) ==
    /\ chatPc[c] = "idle"
    /\ GwFrame
    /\ semOpenrouter' = GetOpenrouterSemaphore
    /\ chatPc' = [chatPc EXCEPT ![c] = "acquire"]
    /\ UNCHANGED <<envLlmConcurrency, envLlmMaxRetries, chatAttempt, chatLastErr,
                   chatHolds, chatResult, backendReply, backendCalls, backendFails,
                   chatSleeps>>

\* `async with sem` entered: a permit is taken; the loop issues attempt 1, or,
\* when range(1, retries + 1) is empty, falls through to `return ""`.
ChatAcquire(c) ==
    /\ chatPc[c] = "acquire"
    /\ GwFrame
    /\ semOpenrouter.val > 0
    /\ IF Retries >= 1
       THEN /\ semOpenrouter' = Some(semOpenrouter.val - 1)
            /\ chatHolds' = [chatHolds EXCEPT ![c] = TRUE]
            /\ chatAttempt' = [chatAttempt EXCEPT ![c] = 1]
            /\ backendCalls' = [backendCalls EXCEPT ![c] = @ + 1]
            /\ chatPc' = [chatPc EXCEPT ![c] = "call"]
            /\ UNCHANGED chatResult
       ELSE /\ chatResult' = [chatResult EXCEPT ![c] = [kind |-> "returned", text |-> ""]]
            /\ chatPc' = [chatPc EXCEPT ![c] = "done"]
            /\ UNCHANGED <<semOpenrouter, chatHolds, chatAttempt, backendCalls>>
    /\ UNCHANGED <<envLlmConcurrency, envLlmMaxRetries, chatLastErr, backendReply,
                   backendFails, chatSleeps>>

\* A mutant of the except branch: the retry budget is one attempt short.
ChatGivesUpEarly(attempt, e) == attempt + 1 >= Retries \/ ~IsRetryableError(e)

\* A mutant of the except branch: one attempt more than the budget.
ChatGivesUpLate(attempt, e) == attempt > Retries \/ ~IsRetryableError(e)

\* A mutant of the except branch: the error's class is not looked at.
ChatGivesUpOnlyExhausted(attempt, e) == attempt >= Retries \/ Len(e) < 0

\* `if attempt >= retries or not _is_retryable_error(e): raise`
ChatGivesUp(attempt, e) == attempt >= Retries \/ ~IsRetryableError(e)

\* The backend call of the current attempt returns text t:
\* `content = await asyncio.to_thread(_call_once); return content or ""`.
\* Leaving the `async with` block gives the permit back.
ChatAttemptReturns(c) ==
    /\ chatPc[c] = "call"
    /\ GwFrame
    /\ \E t \in BackendTexts :
          /\ backendReply' = [backendReply EXCEPT ![c] = [kind |-> "ok", text |-> t]]
          /\ chatResult' = [chatResult EXCEPT ![c] = [kind |-> "returned", text |-> t]]
    /\ semOpenrouter' = Some(semOpenrouter.val + 1)
    /\ chatHolds' = [chatHolds EXCEPT ![c] = FALSE]
    /\ chatPc' = [chatPc EXCEPT ![c] = "done"]
    /\ UNCHANGED <<envLlmConcurrency, envLlmMaxRetries, chatAttempt, chatLastErr,
                   backendCalls, backendFails, chatSleeps>>

\* A mutant of the except branch: the permit is given back before the sleep.
ChatAttemptRaisesReleasing(c) ==
    /\ chatPc[c] = "call"
    /\ GwFrame
    /\ \E e \in BackendErrors :
          /\ backendReply' = [backendReply EXCEPT ![c] = [kind |-> "error", err |-> e]]
          /\ backendFails' = [backendFails EXCEPT ![c] = @ + 1]
          /\ chatLastErr' = [chatLastErr EXCEPT ![c] = Some(e)]
          /\ semOpenrouter' = Some(semOpenrouter.val + 1)
          /\ chatHolds' = [chatHolds EXCEPT ![c] = FALSE]
          /\ IF ChatGivesUp(chatAttempt[c], e)
             THEN /\ chatResult' = [chatResult EXCEPT ![c] = [kind |-> "raised", err |-> e]]
                  /\ chatPc' = [chatPc EXCEPT ![c] = "done"]
                  /\ UNCHANGED chatSleeps
             ELSE /\ chatSleeps' = [chatSleeps EXCEPT ![c] = @ + 1]
                  /\ chatPc' = [chatPc EXCEPT ![c] = "sleep"]
                  /\ UNCHANGED chatResult
    /\ UNCHANGED <<envLlmConcurrency, envLlmMaxRetries, chatAttempt, backendCalls>>

\* The backend call of the current attempt raises e: `except Exception as e`
\* remembers it, then re-raises (leaving the `async with` block, which gives
\* the permit back) or starts the backoff sleep, still holding the permit.
ChatAttemptRaises(c) ==
    /\ chatPc[c] = "call"
    /\ GwFrame
    /\ \E e \in BackendErrors :
          /\ backendReply' = [backendReply EXCEPT ![c] = [kind |-> "error", err |-> e]]
          /\ backendFails' = [backendFails EXCEPT ![c] = @ + 1]
          /\ chatLastErr' = [chatLastErr EXCEPT ![c] = Some(e)]
          /\ IF ChatGivesUp(chatAttempt[c], e)
             THEN /\ chatResult' = [chatResult EXCEPT ![c] = [kind |-> "raised", err |-> e]]
                  /\ semOpenrouter' = Some(semOpenrouter.val + 1)
                  /\ chatHolds' = [chatHolds EXCEPT ![c] = FALSE]
                  /\ chatPc' = [chatPc EXCEPT ![c] = "done"]
                  /\ UNCHANGED chatSleeps
             ELSE /\ chatSleeps' = [chatSleeps EXCEPT ![c] = @ + 1]
                  /\ chatPc' = [chatPc EXCEPT ![c] = "sleep"]
                  /\ UNCHANGED <<semOpenrouter, chatHolds, chatResult>>
    /\ UNCHANGED <<envLlmConcurrency, envLlmMaxRetries, chatAttempt, backendCalls>>

\* asyncio.sleep(_backoff_delay(attempt)) is over: the loop issues the next attempt.
ChatWake(c) ==
    /\ chatPc[c] = "sleep"
    /\ GwFrame
    /\ chatAttempt' = [chatAttempt EXCEPT ![c] = @ + 1]
    /\ backendCalls' = [backendCalls EXCEPT ![c] = @ + 1]
    /\ chatPc' = [chatPc EXCEPT ![c] = "call"]
    /\ UNCHANGED <<envLlmConcurrency, envLlmMaxRetries, semOpenrouter, chatLastErr,
                   chatHolds, chatResult, backendReply, backendFails, chatSleeps>>

GwNext ==
    \E c \in Calls :
        \/ ChatStart(c)
        \/ ChatAcquire(c)
        \/ ChatAttemptReturns(c)
        \/ ChatAttemptRaises(c)
        \/ ChatWake(c)


(***************************************************************************)
(* Compile permit set: compile_manim.py, _get_compile_sem and              *)
(* _limit_parallelism.  compile_manim_to_mp4 runs in worker threads        *)
(* (asyncio.to_thread), which interleave between the statements below.     *)
(***************************************************************************)

\* Number of compile jobs submitted concurrently.
NumJobs == 3

\* Largest numeric value of MANIM_MAX_PARALLEL the model draws.
MaxEnvParallel == 2

DefaultManimMaxParallel == 2

Jobs == 1..NumJobs

\* max(1, size) of _get_compile_sem, size parsed from MANIM_MAX_PARALLEL.
CompileCapacity ==
    LET size == IF envManimMaxParallel.kind = "int"
                THEN envManimMaxParallel.val
                ELSE DefaultManimMaxParallel
    IN  Max(1, size)

PermitFrame == UNCHANGED <<gwVars, casVars, buildVars, writerVars, fbVars, sylVars, handlerVars,
    storeVars, backoffVars, pmVars>>

PermitInit ==
    /\ envManimMaxParallel \in {EnvUnset, EnvBad} \cup {EnvInt(n) : n \in 0..MaxEnvParallel}
    /\ compileSem = None
    /\ semObjects = <<>>
    /\ jobPc = [t \in Jobs |-> "idle"]
    /\ jobSem = [t \in Jobs |-> 0]

\* The other parts at rest.
GwRest ==
    /\ envLlmConcurrency = EnvUnset
    /\ envLlmMaxRetries = EnvUnset
    /\ semOpenrouter = None
    /\ chatPc = [c \in Calls |-> "idle"]
    /\ chatAttempt = [c \in Calls |-> 0]
    /\ chatLastErr = [c \in Calls |-> None]
    /\ chatHolds = [c \in Calls |-> FALSE]
    /\ chatResult = [c \in Calls |-> NoResult]
    /\ backendReply = [c \in Calls |-> NoReply]
    /\ backendCalls = [c \in Calls |-> 0]
    /\ backendFails = [c \in Calls |-> 0]
    /\ chatSleeps = [c \in Calls |-> 0]

PermitRest ==
    /\ envManimMaxParallel = EnvUnset
    /\ compileSem = None
    /\ semObjects = <<>>
    /\ jobPc = [t \in Jobs |-> "idle"]
    /\ jobSem = [t \in Jobs |-> 0]

\* compile_manim_to_mp4 enters `with _limit_parallelism()`; _get_compile_sem
\* evaluates `if _compile_sem is None`.
JobCheck(t) ==
    /\ jobPc[t] = "idle"
    /\ PermitFrame
    /\ jobPc' = [jobPc EXCEPT ![t] = IF compileSem = None THEN "create" ELSE "fetch"]
    /\ UNCHANGED <<envManimMaxParallel, compileSem, semObjects, jobSem>>

\* `_compile_sem = threading.BoundedSemaphore(max(1, size))`: a new semaphore
\* object is built and stored in the global, whatever the global holds by now.
JobCreate(t) ==
    /\ jobPc[t] = "create"
    /\ PermitFrame
    /\ semObjects' = Append(semObjects, CompileCapacity)
    /\ compileSem' = Some(Len(semObjects) + 1)
    /\ jobPc' = [jobPc EXCEPT ![t] = "fetch"]
    /\ UNCHANGED <<envManimMaxParallel, jobSem>>

\* `return _compile_sem`: the global is read again; `sem = _get_compile_sem()`.
JobFetch(t) ==
    /\ jobPc[t] = "fetch"
    /\ PermitFrame
    /\ jobSem' = [jobSem EXCEPT ![t] = compileSem.val]
    /\ jobPc' = [jobPc EXCEPT ![t] = "acquire"]
    /\ UNCHANGED <<envManimMaxParallel, compileSem, semObjects>>

\* `sem.acquire()` blocks until the thread's semaphore object has a free permit.
JobAcquire(t) ==
    /\ jobPc[t] = "acquire"
    /\ PermitFrame
    /\ semObjects[jobSem[t]] > 0
    /\ semObjects' = [semObjects EXCEPT ![jobSem[t]] = @ - 1]
    /\ jobPc' = [jobPc EXCEPT ![t] = "inside"]
    /\ UNCHANGED <<envManimMaxParallel, compileSem, jobSem>>

\* The guarded section ends (a result or an exception); `finally: sem.release()`.
JobRelease(t) ==
    /\ jobPc[t] = "inside"
    /\ PermitFrame
    /\ semObjects' = [semObjects EXCEPT ![jobSem[t]] = @ + 1]
    /\ jobPc' = [jobPc EXCEPT ![t] = "done"]
    /\ UNCHANGED <<envManimMaxParallel, compileSem, jobSem>>

PermitNext ==
    \E t \in Jobs :
        \/ JobCheck(t)
        \/ JobCreate(t)
        \/ JobFetch(t)
        \/ JobAcquire(t)
        \/ JobRelease(t)

(***************************************************************************)
(* Compile strategy cascade: compile_manim.py, compile_manim_to_mp4 for    *)
(* one job, inside the permit-guarded section.                             *)
(***************************************************************************)

\* The two places _check_outputs looks at: media/videos/<id>/480p15/<id>.mp4
\* and <workdir>/<id>.mp4.
OutputPlaces == {"nested", "flat"}

\* The flags and probes of one job.
CascadeEnvs ==
    [useDocker : BOOLEAN,        \* MANIM_ENABLE_DOCKER != "0"
     useLocal : BOOLEAN,         \* MANIM_ENABLE_LOCAL != "0"
     usePlaceholder : BOOLEAN,   \* MANIM_ENABLE_PLACEHOLDER != "0"
     dockerCli : BOOLEAN,        \* shutil.which("docker")
     preferLocal : BOOLEAN,      \* MANIM_LOCAL_FIRST != "0" or VIRTUAL_ENV
     localCmd : BOOLEAN,         \* _local_manim_command() found a runtime
     ffmpeg : BOOLEAN,           \* shutil.which("ffmpeg")
     secondsOk : BOOLEAN]        \* int(MANIM_PLACEHOLDER_SECONDS) parses

\* `docker_available = bool(shutil.which("docker")) if use_docker else False`
DockerAvailable(env) == env.useDocker /\ env.dockerCli

\* The first existing place, nested before flat, else None (_check_outputs,
\* and the output lookup at the end of _try_local_manim).
CheckOutputs(files) ==
    IF "nested" \in files THEN Some("nested")
    ELSE IF "flat" \in files THEN Some("flat")
    ELSE None

Returned(path) == [kind |-> "returned", path |-> path]

Raised == [kind |-> "raised"]

CasFrame == UNCHANGED <<gwVars, permitVars, buildVars, writerVars, fbVars, sylVars, handlerVars,
    storeVars, backoffVars, pmVars>>

CasInit ==
    /\ casEnv \in CascadeEnvs
    /\ casPc = "allocate"
    /\ casFiles = {}
    /\ casTried = <<>>
    /\ casResult = NoResult

CasRest ==
    /\ casEnv = [useDocker |-> TRUE, useLocal |-> TRUE, usePlaceholder |-> TRUE,
                 dockerCli |-> FALSE, preferLocal |-> TRUE, localCmd |-> TRUE,
                 ffmpeg |-> TRUE, secondsOk |-> TRUE]
    /\ casPc = "allocate"
    /\ casFiles = {}
    /\ casTried = <<>>
    /\ casResult = NoResult

\* A strategy's step: it is recorded, leaves `files` in the working directory
\* and either ends the job with `out` or hands over to position `next`.
StrategyStep(name, files, out, next) ==
    /\ casTried' = Append(casTried, name)
    /\ casFiles' = files
    /\ IF out # None
       THEN casPc' = "done" /\ casResult' = Returned(out)
       ELSE casPc' = next /\ UNCHANGED casResult

SkipTo(next) ==
    /\ casPc' = next
    /\ UNCHANGED <<casFiles, casTried, casResult>>

\* _try_local_manim: None without a runtime; else the renderer runs, may
\* leave output files whether it succeeds or fails (timeout, non-zero exit,
\* exec error), and only a successful run looks the output up.
TryLocalManim(next) ==
    IF ~casEnv.localCmd
    THEN StrategyStep("local", casFiles, None, next)
    ELSE \E ok \in BOOLEAN, made \in SUBSET OutputPlaces :
            LET files == casFiles \cup made
            IN  StrategyStep("local", files,
                             IF ok THEN CheckOutputs(files) ELSE None, next)

\* `base = _workdir_base(); tmpdir = tempfile.mkdtemp(...)`: the directory is
\* made, or the call raises (OSError) out of compile_manim_to_mp4.
CascadeAllocate ==
    /\ casPc = "allocate"
    /\ CasFrame
    /\ \E ok \in BOOLEAN :
          IF ok
          THEN casPc' = "write" /\ UNCHANGED casResult
          ELSE casPc' = "done" /\ casResult' = Raised
    /\ UNCHANGED <<casEnv, casFiles, casTried>>

\* `pyfile.write_text(code, encoding="utf-8")`: written, or it raises
\* (OSError, UnicodeEncodeError) out of compile_manim_to_mp4.
CascadeWrite ==
    /\ casPc = "write"
    /\ CasFrame
    /\ \E ok \in BOOLEAN :
          IF ok
          THEN casPc' = "local_first" /\ UNCHANGED casResult
          ELSE casPc' = "done" /\ casResult' = Raised
    /\ UNCHANGED <<casEnv, casFiles, casTried>>

\* `if prefer_local and use_local: out_local_first = _try_local_manim(...)`
CascadeLocalFirst ==
    /\ casPc = "local_first"
    /\ CasFrame
    /\ IF casEnv.preferLocal /\ casEnv.useLocal
       THEN TryLocalManim("docker")
       ELSE SkipTo("docker")
    /\ UNCHANGED casEnv

\* `if docker_available and _ensure_image(image):` run the container; only a
\* run that exits with 0 is followed by _check_outputs.
CascadeDocker ==
    /\ casPc = "docker"
    /\ CasFrame
    /\ \E image \in BOOLEAN :
          IF DockerAvailable(casEnv) /\ image
          THEN \E ok \in BOOLEAN, made \in SUBSET OutputPlaces :
                  LET files == casFiles \cup made
                  IN  StrategyStep("docker", files,
                                   IF ok THEN CheckOutputs(files) ELSE None, "local")
          ELSE SkipTo("local")
    /\ UNCHANGED casEnv

\* `if use_local: out_local = _try_local_manim(...)`
CascadeLocal ==
    /\ casPc = "local"
    /\ CasFrame
    /\ IF casEnv.useLocal
       THEN TryLocalManim("placeholder")
       ELSE SkipTo("placeholder")
    /\ UNCHANGED casEnv

\* Whether the ffmpeg process of the placeholder exits: it runs with no
\* timeout (compile_manim.py:285), so it may never do.
PlaceholderExits == BOOLEAN

\* `if use_placeholder: ph = _try_ffmpeg_placeholder(...)`: None without
\* ffmpeg; int(MANIM_PLACEHOLDER_SECONDS) is evaluated outside the try and
\* raises on a value that is no number; else ffmpeg writes <workdir>/<id>.mp4
\* or fails.  Its subprocess.run is given no timeout: a process that never
\* exits leaves the job waiting inside the guarded section ("hung").
CascadePlaceholder ==
    /\ casPc = "placeholder"
    /\ CasFrame
    /\ IF ~casEnv.usePlaceholder
       THEN SkipTo("check")
       ELSE IF ~casEnv.ffmpeg
       THEN StrategyStep("placeholder", casFiles, None, "check")
       ELSE IF ~casEnv.secondsOk
       THEN /\ casTried' = Append(casTried, "placeholder")
            /\ casPc' = "done"
            /\ casResult' = Raised
            /\ UNCHANGED casFiles
       ELSE \E exits \in PlaceholderExits, ok \in BOOLEAN, made \in SUBSET {"flat"} :
               LET files == casFiles \cup made
               IN  IF ~exits
                   THEN /\ casTried' = Append(casTried, "placeholder")
                        /\ casFiles' = files
                        /\ casPc' = "hung"
                        /\ UNCHANGED casResult
                   ELSE StrategyStep("placeholder", files,
                                     IF ok /\ "flat" \in files THEN Some("flat") ELSE None,
                                     "check")
    /\ UNCHANGED casEnv

\* `outp = _check_outputs(); if outp: return outp; return None`
CascadeCheck ==
    /\ casPc = "check"
    /\ CasFrame
    /\ casPc' = "done"
    /\ casResult' = Returned(CheckOutputs(casFiles))
    /\ UNCHANGED <<casEnv, casFiles, casTried>>

CasNext ==
    \/ CascadeAllocate
    \/ CascadeWrite
    \/ CascadeLocalFirst
    \/ CascadeDocker
    \/ CascadeLocal
    \/ CascadePlaceholder
    \/ CascadeCheck

(***************************************************************************)
(* Pipeline orchestrator: graph.py, build_course_graph.  One action is one *)
(* stretch of the coroutine between two awaits.  The checkpointed engine   *)
(* (LangGraph) is outside the repository: it may be missing, it may fail   *)
(* while it is set up or while it runs, and it may or may not hand the     *)
(* injected "_report" entry of the state to the node functions.            *)
(***************************************************************************)

\* Largest syllabus the model draws (entries of a generated syllabus, and
\* values of constraints["count_modules"]).
MaxModules == 2

DefaultCountModules == 6

MaxCountModules == 10

\* A syllabus entry without the keys build_course_graph reads with
\* spec["id"] and spec["title"].
NoId == "missing"

\* f"m{i}" of the fallback syllabus.
FallbackIds == <<"m1", "m2", "m3", "m4", "m5", "m6", "m7", "m8", "m9", "m10">>

\* sorted() of these keys: str order.
KeyOrder == <<"m1", "m10", "m2", "m3", "m4", "m5", "m6", "m7", "m8", "m9">>

\* The ids of the entries a generated syllabus is drawn from.
GeneratedIds == {"m1", "m2", NoId}

SeqsUpTo(S, n) == UNION {[1..k -> S] : k \in 0..n}

\* What generate_syllabus has in `data` after safe_json_loads(content or ""):
\* None (the gateway raised, the text is empty or no JSON), a JSON value
\* that is falsy, true, a number, a string or a list (each without or with
\* "modules" in it), an object without "modules", with a "modules" that is
\* no list, with a list of entries that are no objects, or with a list of
\* objects.
UnusableKinds ==
    {"error", "empty", "nonjson", "null", "false", "zero", "emptyString", "emptyList",
     "emptyObject", "true", "number", "string", "stringModules", "list", "listModules",
     "object", "objectModulesOther", "modulesNotObjects"}

SyllabusReplies ==
    {[kind |-> k, ids |-> <<>>] : k \in UnusableKinds}
        \cup {[kind |-> "modules", ids |-> s] : s \in SeqsUpTo(GeneratedIds, MaxModules)}

\* `not data`
Falsy(reply) ==
    reply.kind \in {"error", "empty", "nonjson", "null", "false", "zero", "emptyString",
                    "emptyList", "emptyObject"}

\* `"modules" not in data` raises TypeError on a bool or a number.
MembershipRaises(reply) == reply.kind \in {"true", "number"}

\* `"modules" in data`: a key, an element, or a substring.
HasModules(reply) ==
    reply.kind \in {"stringModules", "listModules", "objectModulesOther",
                    "modulesNotObjects", "modules"}

\* `data["modules"]` raises TypeError on a string or a list.
IndexRaises(reply) == reply.kind \in {"stringModules", "listModules"}

\* `isinstance(data["modules"], list)`
ModulesIsList(reply) == reply.kind \in {"modulesNotObjects", "modules"}

\* The condition of syllabus.py:44, when it does not raise.
UsesFallback(reply) == Falsy(reply) \/ ~HasModules(reply) \/ ~ModulesIsList(reply)

\* constraints.get("count_modules"): absent or None, an int, a str int()
\* reads as a number, or a str it rejects.
CountArgs ==
    {[kind |-> k, val |-> 0] : k \in {"absent", "none", "badstr"}}
        \cup {[kind |-> k, val |-> n] : k \in {"int", "numstr"},
                                       n \in (-1)..(MaxCountModules + 1)}

\* The number `constraints.get("count_modules") or 6` hands to int(), 0
\* standing for a value that `or` replaces.
CountValue(arg) == IF arg.kind \in {"int", "numstr"} THEN arg.val ELSE 0

\* generate_syllabus raises: the TypeError of the condition, ValueError of
\* int(), or AttributeError of m.get('id') in the log line of
\* syllabus.py:59.
SyllabusRaises(reply, arg) ==
    IF Falsy(reply) THEN arg.kind = "badstr"
    ELSE IF MembershipRaises(reply) THEN TRUE
    ELSE IF ~HasModules(reply) THEN arg.kind = "badstr"
    ELSE IF IndexRaises(reply) THEN TRUE
    ELSE IF ~ModulesIsList(reply) THEN arg.kind = "badstr"
    ELSE reply.kind = "modulesNotObjects"

\* `count = int(constraints.get("count_modules") or 6)`,
\* `count = max(1, min(count, 10))`, entries m1..m<count>.
FallbackSyllabus(c) ==
    LET count == Max(1, Min(IF c = 0 THEN DefaultCountModules ELSE c, MaxCountModules))
    IN  [i \in 1..count |-> FallbackIds[i]]

\* generate_syllabus, when it does not raise.
GenerateSyllabus(reply, c) ==
    IF reply.kind = "modules" THEN reply.ids ELSE FallbackSyllabus(c)

\* The replies a build is followed on: the gateway raised, a JSON number,
\* a list of entries.
BuildReplies == {r \in SyllabusReplies : r.kind \in {"error", "number", "modules"}}

\* The replies of the gateway to generate_syllabus in a build: only the
\* exception when every generative call fails.
RepliesIn(offline) ==
    IF offline THEN {r \in BuildReplies : r.kind = "error"} ELSE BuildReplies

\* write_text: `content or "# Lesson\n\nContent unavailable."`, the model's
\* text or, the call having failed, the stock text.
WriteText(offline) == IF offline THEN "stock" ELSE "model"

\* The text an artifact holds is empty: neither a text write_text returns is.
TextEmpty(text) == text \notin {"stock", "model"}

\* write_manim_code as a build sees it: the model's validated draft or, both
\* of its calls having failed, the fallback tutorial of the entry.
WriteManimCode(offline) == IF offline THEN "tutorial" ELSE "model"

\* A ModuleArtifact: its module_id, the syllabus entry it was made from
\* (standing for title and outline), where its text and its code come from,
\* the descriptor generate_gemini_image_or_fallback returned ("gim") and its
\* video_path.
Artifact(i, id) ==
    [id |-> id, spec |-> i, text |-> WriteText(bOffline),
     code |-> WriteManimCode(bOffline), aux |-> "gim", video |-> "unset"]

\* (mutant) a compile task that rebuilds the artifact around the path.
WithVideoRebuilt(mart, path) ==
    [id |-> mart.id, spec |-> mart.spec, text |-> mart.text, code |-> "",
     aux |-> mart.aux, video |-> path]

\* `mart["video_path"] = path`
WithVideo(mart, path) == [mart EXCEPT !.video = path]

\* `{m["module_id"]: m for m in mods}`: a key keeps the place of its first
\* artifact and the value of its last.
DictPut(d, art) ==
    IF \E j \in 1..Len(d) : d[j].id = art.id
    THEN [j \in 1..Len(d) |-> IF d[j].id = art.id THEN art ELSE d[j]]
    ELSE Append(d, art)

RECURSIVE DictFrom(_, _)
DictFrom(d, arts) ==
    IF arts = <<>> THEN d ELSE DictFrom(DictPut(d, Head(arts)), Tail(arts))

DictOf(arts) == DictFrom(<<>>, arts)

KeyRank(id) == CHOOSE k \in 1..Len(KeyOrder) : KeyOrder[k] = id

\* `[mods_dict[k] for k in sorted(mods_dict.keys())]`
SortByKey(d) ==
    [j \in 1..Len(d) |->
        d[CHOOSE i \in 1..Len(d) :
            Cardinality({k \in 1..Len(d) : KeyRank(d[k].id) < KeyRank(d[i].id)}) = j - 1]]

\* (mutant) the percentage taken before `done += 1`.
CompilePctBeforeCount(done, total) == 60 + (((done - 1) * 20) \div total)

\* `60 + int((done / total) * 20)`
CompilePct(done, total) == 60 + ((done * 20) \div total)

\* How compile_manim_to_mp4 can end (the exits of SpecCascade): a path, None,
\* or an exception.
CompileOutcomes == {"mp4", "null", "raise"}

\* The placeholder strategy working, compile_manim_to_mp4 ends with a path.
OutcomesIn(offline) == IF offline THEN {"mp4"} ELSE CompileOutcomes

\* `report` reaches progress_cb: a callback is given and, inside an engine
\* node, the engine has handed "_report" to the node.
Reporting(path) == bCb # "none" /\ ~(path = "engine" /\ bEngine = "drops")

\* report: `asyncio.create_task(progress_cb(pct, status))`.  A callback that
\* is no coroutine function has run when create_task rejects its result with
\* TypeError, which `except RuntimeError` does not catch.
ReportRaises(path) == Reporting(path) /\ bCb = "sync"

\* The percentages handed over when `pcts` are reported in order after
\* `reps`; the first call that raises ends the sequence.
ReportAll(path, reps, pcts) ==
    IF ~Reporting(path) THEN reps
    ELSE IF bCb = "sync" THEN Append(reps, Head(pcts))
    ELSE reps \o pcts

BuildFrame == UNCHANGED <<gwVars, permitVars, casVars, writerVars, fbVars, sylVars, handlerVars,
    storeVars, backoffVars, pmVars>>

BuildSet(p, st, sy, ta, mo, jo, it, re, pe, pk, ff) ==
    /\ bPath' = p
    /\ bStage' = st
    /\ bSyllabus' = sy
    /\ bTask' = ta
    /\ bModules' = mo
    /\ bJob' = jo
    /\ bItems' = it
    /\ bReports' = re
    /\ bPersist' = pe
    /\ bPackage' = pk
    /\ bFanoutFailed' = ff
    /\ UNCHANGED <<bEngine, bCb, bCount, bOwner, bOffline>>

\* A build is followed for every engine and callback; the request asks for
\* MaxModules modules (shorter builds come with the generated syllabi).
BuildInit ==
    /\ bEngine \in {"missing", "keeps", "drops"}
    /\ bCb \in {"none", "async", "sync"}
    /\ bCount = MaxModules
    /\ bOwner \in BOOLEAN
    /\ bOffline = FALSE
    /\ bPath = "none"
    /\ bStage = "init"
    /\ bSyllabus = <<>>
    /\ bTask = <<>>
    /\ bModules = <<>>
    /\ bJob = <<>>
    /\ bItems = <<>>
    /\ bReports = <<>>
    /\ bPersist = <<>>
    /\ bPackage = None
    /\ bFanoutFailed = FALSE

BuildRest ==
    /\ bEngine = "missing"
    /\ bCb = "none"
    /\ bCount = 1
    /\ bOwner = FALSE
    /\ bOffline = FALSE
    /\ bPath = "none"
    /\ bStage = "init"
    /\ bSyllabus = <<>>
    /\ bTask = <<>>
    /\ bModules = <<>>
    /\ bJob = <<>>
    /\ bItems = <<>>
    /\ bReports = <<>>
    /\ bPersist = <<>>
    /\ bPackage = None
    /\ bFanoutFailed = FALSE

\* The direct executor starts (graph.py:229-231) with `reps` reported and
\* `pe` persisted so far: report(5), then generate_syllabus is awaited.  The
\* tasks an abandoned engine run has left behind are not followed.
EnterDirect(reps, pe, ff) ==
    BuildSet("direct", IF ReportRaises("direct") THEN "raised" ELSE "syllabus",
             <<>>, <<>>, <<>>, <<>>, <<>>, ReportAll("direct", reps, <<5>>), pe, None, ff)

\* An exception leaves the running stage after `reps`: the engine run is
\* abandoned for the direct executor (graph.py:225-227), the direct executor
\* re-raises to the caller (graph.py:278-280).
Fail(reps, ta, jo, ff) ==
    IF bPath = "engine"
    THEN EnterDirect(reps, bPersist, ff)
    ELSE BuildSet("direct", "raised", bSyllabus, ta, bModules, jo, bItems, reps,
                  bPersist, None, ff)

\* build_course_graph up to its first await.  Without the engine the direct
\* executor starts; with it the graph is built and invoked (which may fail)
\* and the syllabus node reports 5 and awaits generate_syllabus.
BuildStart ==
    /\ bStage = "init"
    /\ BuildFrame
    /\ IF bEngine = "missing"
       THEN EnterDirect(<<>>, <<>>, FALSE)
       ELSE \E setupOk \in BOOLEAN :
               IF ~setupOk
               THEN EnterDirect(<<>>, <<>>, FALSE)
               ELSE IF ReportRaises("engine")
               THEN EnterDirect(ReportAll("engine", <<>>, <<5>>), <<>>, FALSE)
               ELSE BuildSet("engine", "syllabus", <<>>, <<>>, <<>>, <<>>, <<>>,
                             ReportAll("engine", <<>>, <<5>>), <<>>, None, FALSE)

\* generate_syllabus raises, or it returns, 20 is reported and one fan-out
\* task per entry is handed to asyncio.gather.
SyllabusReturn ==
    /\ bStage = "syllabus"
    /\ BuildFrame
    /\ \E reply \in RepliesIn(bOffline) :
          LET sy == GenerateSyllabus(reply, bCount)
              re == ReportAll(bPath, bReports, <<20>>)
          IN  IF SyllabusRaises(reply, [kind |-> "int", val |-> bCount])
              THEN Fail(bReports, <<>>, <<>>, bFanoutFailed)
              ELSE IF ReportRaises(bPath)
              THEN Fail(re, <<>>, <<>>, bFanoutFailed)
              ELSE BuildSet(bPath, "fanout", sy, [i \in 1..Len(sy) |-> "text"],
                            <<>>, <<>>, <<>>, re, bPersist, None, bFanoutFailed)

\* A fan-out task keeps running after gather has raised in the direct
\* executor.
TaskRuns == bStage = "fanout" \/ (bStage = "raised" /\ bPath = "direct")

\* process / process_module: write_text has returned; the code and the image
\* are asked for.
TaskText(i) ==
    /\ TaskRuns
    /\ i \in 1..Len(bTask)
    /\ bTask[i] = "text"
    /\ BuildFrame
    /\ BuildSet(bPath, bStage, bSyllabus, [bTask EXCEPT ![i] = "gen"], bModules, bJob,
                bItems, bReports, bPersist, bPackage, bFanoutFailed)

\* The parts of `asyncio.gather(write_manim_code(...),
\* generate_gemini_image_or_fallback(...))` still running in a task at
\* position `pos`: both at "gen", the other one once "code" or "image" has
\* returned.
GenRunning(pos) ==
    IF pos = "gen" THEN {"code", "image"}
    ELSE IF pos = "code" THEN {"image"}
    ELSE IF pos = "image" THEN {"code"}
    ELSE {}

\* process / process_module: write_manim_code or the image generator
\* returns.  With both there the artifact is built; spec["id"] and
\* spec["title"] raise KeyError on an entry without them.
TaskGen(i) ==
    /\ TaskRuns
    /\ i \in 1..Len(bTask)
    /\ BuildFrame
    /\ \E part \in GenRunning(bTask[i]) :
          LET fails == bSyllabus[i] = NoId
              pos == IF bTask[i] = "gen" THEN part
                     ELSE IF fails THEN "raised" ELSE "done"
          IN  BuildSet(bPath, bStage, bSyllabus, [bTask EXCEPT ![i] = pos],
                       bModules, bJob, bItems, bReports, bPersist, bPackage,
                       bFanoutFailed \/ (pos = "raised"))

\* asyncio.gather raises the exception of a fan-out task.
FanoutAbort ==
    /\ bStage = "fanout"
    /\ \E i \in 1..Len(bTask) : bTask[i] = "raised"
    /\ BuildFrame
    /\ Fail(bReports, bTask, <<>>, bFanoutFailed)

\* The list handed to persist_course_and_modules: the engine sorts its dict
\* by key, the direct executor passes modules_list.
PersistList(path, mo) == IF path = "engine" THEN SortByKey(mo) ELSE mo

\* The owner_id argument: _persist passes owner_id, the direct executor
\* leaves the parameter at its default None.
PersistOwner(path) == IF path = "engine" /\ bOwner THEN "owner_id" ELSE "None"

PersistCall(path, mo) ==
    [by |-> path, modules |-> PersistList(path, mo), owner |-> PersistOwner(path)]

\* (mutant) gather that also returns when a task has raised, as with
\* return_exceptions=True.
FanoutGatheredDespiteRaise == \A i \in 1..Len(bTask) : bTask[i] \in {"done", "raised"}

\* asyncio.gather returns once every task has returned its artifact.
FanoutGathered == \A i \in 1..Len(bTask) : bTask[i] = "done"

\* asyncio.gather returns every artifact: the modules collection is set (a
\* dict keyed by module_id under the engine, the list itself in the direct
\* executor), 60 is reported and one compile job per module is created.
\* Without modules the compile loop is empty: 80 is reported and
\* persist_course_and_modules is awaited.
FanoutJoin ==
    /\ bStage = "fanout"
    /\ FanoutGathered
    /\ BuildFrame
    /\ LET arts == [i \in 1..Len(bSyllabus) |-> Artifact(i, bSyllabus[i])]
           mo == IF bPath = "engine" THEN DictOf(arts) ELSE arts
           jo == [i \in 1..Len(mo) |-> [spec |-> mo[i].spec, state |-> "running"]]
       IN  IF ReportRaises(bPath)
           THEN Fail(ReportAll(bPath, bReports, <<60>>), bTask, <<>>, bFanoutFailed)
           ELSE IF mo = <<>>
           THEN BuildSet(bPath, "persist", bSyllabus, bTask, mo, jo, <<>>,
                         ReportAll(bPath, bReports, <<60, 80>>),
                         Append(bPersist, PersistCall(bPath, mo)), None, bFanoutFailed)
           ELSE BuildSet(bPath, "compile", bSyllabus, bTask, mo, jo, <<>>,
                         ReportAll(bPath, bReports, <<60>>), bPersist, None,
                         bFanoutFailed)

\* (mutant) a loop left after its first job.
LoopDoneEarly(done) == done >= 1

\* `for t in asyncio.as_completed(tasks)` has awaited every job.
LoopDone(done) == done = Len(bModules)

\* The next compile job completes and the as_completed loop awaits it: an
\* exception of compile_manim_to_mp4 leaves the loop; else video_path is set,
\* the artifact is appended and the count reported.  After the last job the
\* collection is replaced by the appended artifacts, 80 is reported and
\* persist_course_and_modules is awaited.
JobFinish(i) ==
    /\ bStage = "compile"
    /\ i \in 1..Len(bJob)
    /\ bJob[i].state = "running"
    /\ BuildFrame
    /\ \E out \in OutcomesIn(bOffline) :
          IF out = "raise"
          THEN Fail(bReports, bTask, [bJob EXCEPT ![i].state = "raised"], bFanoutFailed)
          ELSE LET jo == [bJob EXCEPT ![i].state = out]
                   it == Append(bItems, WithVideo(bModules[i], out))
                   done == Len(it)
                   total == Max(1, Len(bModules))
                   pct == CompilePct(done, total)
                   last == LoopDone(done)
                   re == ReportAll(bPath, bReports, IF last THEN <<pct, 80>> ELSE <<pct>>)
               IN  IF ReportRaises(bPath)
                   THEN Fail(re, bTask, jo, bFanoutFailed)
                   ELSE IF last
                   THEN BuildSet(bPath, "persist", bSyllabus, bTask, it, jo, it, re,
                                 Append(bPersist, PersistCall(bPath, it)), None,
                                 bFanoutFailed)
                   ELSE BuildSet(bPath, "compile", bSyllabus, bTask, bModules, jo, it,
                                 re, bPersist, None, bFanoutFailed)

\* persist_course_and_modules returns (it catches its own failures): the
\* package is built from the persisted list, 95 and 100 are reported and the
\* package is returned.  Under the engine 95 is reported by the node and 100
\* by build_course_graph itself, inside the `try` of the engine run.
PersistReturn ==
    /\ bStage = "persist"
    /\ BuildFrame
    /\ LET mods == bPersist[Len(bPersist)].modules
           pkg == Some([count_modules |-> Len(mods), modules |-> mods])
           re95 == ReportAll(bPath, bReports, <<95>>)
           re100 == ReportAll("direct", re95, <<100>>)
       IN  IF ReportRaises(bPath)
           THEN Fail(re95, bTask, bJob, bFanoutFailed)
           ELSE IF ReportRaises("direct")
           THEN Fail(re100, bTask, bJob, bFanoutFailed)
           ELSE BuildSet(bPath, "returned", bSyllabus, bTask, bModules, bJob, bItems,
                         re100, bPersist, pkg, bFanoutFailed)

\* graph.ainvoke raises for a reason of the engine's own (checkpoint, state
\* handling) while a stage is awaited.
EngineFails ==
    /\ bPath = "engine"
    /\ bStage \in {"syllabus", "fanout", "compile", "persist"}
    /\ BuildFrame
    /\ EnterDirect(bReports, bPersist, bFanoutFailed)

BuildNext ==
    \/ BuildStart
    \/ SyllabusReturn
    \/ \E i \in 1..MaxModules :
        \/ TaskText(i)
        \/ TaskGen(i)
        \/ JobFinish(i)
    \/ FanoutAbort
    \/ FanoutJoin
    \/ PersistReturn
    \/ EngineFails

\* A build with default constraints (no count_modules) while every
\* generative call fails and the placeholder video works.
OfflineInit ==
    /\ bEngine \in {"missing", "keeps", "drops"}
    /\ bCb \in {"none", "async", "sync"}
    /\ bCount = 0
    /\ bOwner \in BOOLEAN
    /\ bOffline = TRUE
    /\ bPath = "none"
    /\ bStage = "init"
    /\ bSyllabus = <<>>
    /\ bTask = <<>>
    /\ bModules = <<>>
    /\ bJob = <<>>
    /\ bItems = <<>>
    /\ bReports = <<>>
    /\ bPersist = <<>>
    /\ bPackage = None
    /\ bFanoutFailed = FALSE

\* The steps of such a build: no fan-out task raises.
OfflineNext ==
    \/ BuildStart
    \/ SyllabusReturn
    \/ \E i \in 1..MaxCountModules :
        \/ TaskText(i)
        \/ TaskGen(i)
        \/ JobFinish(i)
    \/ FanoutJoin
    \/ PersistReturn
    \/ EngineFails
(***************************************************************************)
(* The request handlers: main.py.  ai_build awaits the build with its      *)
(* progress_cb; report hands each call of it to the event loop as a task,  *)
(* which runs when the loop gets control.                                  *)
(***************************************************************************)

\* The status reported with a percentage (80 is reported as "uploading"
\* right behind the last "compiling n/n").
StatusOf(pct) ==
    IF pct = 100 THEN "ready"
    ELSE IF pct = 95 \/ pct = 80 THEN "uploading"
    ELSE IF pct = 60 THEN "rendering"
    ELSE IF pct > 60 THEN "compiling"
    ELSE "creating"

\* build_course_graph has returned or raised.
BuildEnded == bStage \in {"returned", "raised"}

\* build_course_graph is suspended in an await.
BuildAwaits == bStage \in {"syllabus", "fanout", "compile", "persist"}

\* _update_progress(target, status, progress) on the record `course`: the
\* in-memory record is replaced; the Convex mutation may fail, which is
\* swallowed and leaves the document as it was.
UpdateProgress(course, status, progress) ==
    {[status |-> status, progress |-> progress]} \cup (IF hConvex THEN {course} ELSE {})

HandlerFrame == UNCHANGED <<gwVars, permitVars, casVars, writerVars, fbVars, sylVars,
    storeVars, backoffVars, pmVars>>

\* ai_build up to the await of the build: the course record and the thread
\* record are created as "creating"; the callback is a coroutine function,
\* no owner id is passed and the request asks for one module.
HandlerInit ==
    /\ bEngine \in {"missing", "keeps", "drops"}
    /\ bCb = "async"
    /\ bCount = 1
    /\ bOwner = FALSE
    /\ bOffline = FALSE
    /\ bPath = "none"
    /\ bStage = "init"
    /\ bSyllabus = <<>>
    /\ bTask = <<>>
    /\ bModules = <<>>
    /\ bJob = <<>>
    /\ bItems = <<>>
    /\ bReports = <<>>
    /\ bPersist = <<>>
    /\ bPackage = None
    /\ bFanoutFailed = FALSE
    /\ hPc = "building"
    /\ hConvex \in BOOLEAN
    /\ hThread = [status |-> "creating", progress |-> 0, error |-> FALSE, course |-> FALSE]
    /\ hCourse = [status |-> "creating", progress |-> 0]
    /\ hResponse = "none"
    /\ hStream = "open"
    /\ cbRan = 0
    /\ cbLate = FALSE

HandlerRest ==
    /\ hPc = "idle"
    /\ hConvex = FALSE
    /\ hThread = [status |-> "creating", progress |-> 0, error |-> FALSE, course |-> FALSE]
    /\ hCourse = [status |-> "creating", progress |-> 0]
    /\ hResponse = "none"
    /\ hStream = "open"
    /\ cbRan = 0
    /\ cbLate = FALSE

\* The event loop runs the oldest callback task that report has created:
\* progress_cb sets the thread record and awaits _update_progress.  The loop
\* has control while the build is suspended, while ai_build is suspended in
\* its own Convex mutation, and after the request has ended.
CallbackRuns ==
    /\ cbRan < Len(bReports)
    /\ BuildAwaits \/ (BuildEnded /\ (hPc = "done" \/ hConvex))
    /\ LET pct == bReports[cbRan + 1]
       IN  /\ hThread' = [hThread EXCEPT !.status = StatusOf(pct), !.progress = pct]
           /\ hCourse' \in UpdateProgress(hCourse, StatusOf(pct), pct)
    /\ cbRan' = cbRan + 1
    /\ cbLate' = (cbLate \/ BuildEnded)
    /\ UNCHANGED <<hPc, hConvex, hResponse, hStream, buildVars>>
    /\ HandlerFrame

\* The build has returned: the package is stored in the thread record, the
\* course record is set to "ready" and the response is sent.
HandlerReturns ==
    /\ hPc = "building"
    /\ bStage = "returned"
    /\ hThread' = [hThread EXCEPT !.course = TRUE]
    /\ hCourse' \in UpdateProgress(hCourse, "ready", 100)
    /\ hResponse' = "ok"
    /\ hPc' = "done"
    /\ UNCHANGED <<hConvex, hStream, cbRan, cbLate, buildVars>>
    /\ HandlerFrame

\* The build has raised: `except Exception` stores the error text in the
\* thread record, sets the course record to "failed" and raises
\* HTTPException(500).
HandlerFails ==
    /\ hPc = "building"
    /\ bStage = "raised"
    /\ hThread' = [hThread EXCEPT !.error = TRUE]
    /\ hCourse' \in UpdateProgress(hCourse, "failed", 100)
    /\ hResponse' = "error"
    /\ hPc' = "done"
    /\ UNCHANGED <<hConvex, hStream, cbRan, cbLate, buildVars>>
    /\ HandlerFrame

\* ai_stream.event_gen: one round of the polling loop.  The thread record
\* is sent; on "ready" or "failed" the loop breaks, else it sleeps, and the
\* hundredth round is the last (the rounds are not counted here: any round
\* may be the last one).
StreamPoll ==
    /\ hStream = "open"
    /\ \E last \in BOOLEAN :
          hStream' = IF hThread.status \in {"ready", "failed"} THEN "ended"
                     ELSE IF last THEN "exhausted" ELSE "open"
    /\ UNCHANGED <<hPc, hConvex, hThread, hCourse, hResponse, cbRan, cbLate, buildVars>>
    /\ HandlerFrame

HandlerNext ==
    \/ BuildNext
    \/ CallbackRuns
    \/ HandlerReturns
    \/ HandlerFails
    \/ StreamPoll

(***************************************************************************)
(* Code synthesis and validation: nodes/manim_writer.py.  A source text is *)
(* followed through the string literals its generator writes: the text     *)
(* parses when each of them is read back as one literal.                   *)
(***************************************************************************)

\* Longest title the model draws.
MaxTextLen == 2

\* Longest outline the model draws.
MaxOutline == 1

\* `bullets[:4]`
MaxBullets == 4

\* `max_attempts = 2`
MaxAttempts == 2

Quote == "'"

Backslash == "\\"

Newline == "\n"

\* The characters titles are drawn from: a plain one, the quote, the
\* backslash, the line end.
TextChars == {"t", Quote, Backslash, Newline}

Texts == SeqsUpTo(TextChars, MaxTextLen)

HexDigits == {"0", "1", "2", "3", "4", "5", "6", "7", "8", "9",
              "a", "b", "c", "d", "e", "f", "A", "B", "C", "D", "E", "F"}

\* str.replace("'", "\\'")
RECURSIVE EscapeQuotes(_)
EscapeQuotes(s) ==
    IF s = <<>> THEN <<>>
    ELSE (IF Head(s) = Quote THEN <<Backslash, Quote>> ELSE <<Head(s)>>)
             \o EscapeQuotes(Tail(s))

\* ast.parse reading `'` body `'`, from position i of the body: a backslash
\* takes the next character with it (and \x needs two hex digits, \u, \U and
\* \N a completion the texts here never give); a bare quote ends the literal
\* before the text does; a bare line end or a trailing backslash leaves it
\* unterminated.
RECURSIVE LiteralScan(_, _)
LiteralScan(body, i) ==
    IF i > Len(body) THEN TRUE
    ELSE IF body[i] = Backslash
    THEN IF i = Len(body) THEN FALSE
         ELSE IF body[i + 1] = "x"
         THEN /\ i + 3 <= Len(body)
              /\ body[i + 2] \in HexDigits
              /\ body[i + 3] \in HexDigits
              /\ LiteralScan(body, i + 4)
         ELSE IF body[i + 1] \in {"u", "U", "N"} THEN FALSE
         ELSE LiteralScan(body, i + 2)
    ELSE IF body[i] \in {Quote, Newline} THEN FALSE
    ELSE LiteralScan(body, i + 1)

LiteralOk(body) == LiteralScan(body, 1)

\* The texts the generators write between quotes, as the generated file
\* holds them ("Let\'s" in the generator's own double-quoted literal is
\* Let's in the file); the bullet and the dash are written * and -.
LitLesson == <<"L", "e", "s", "s", "o", "n">>

LitAutoGenerated ==
    <<"A", "u", "t", "o", "-", "g", "e", "n", "e", "r", "a", "t", "e", "d",
      " ", "f", "a", "l", "l", "b", "a", "c", "k", " ", "s", "c", "e", "n",
      "e">>

LitToday == <<"T", "o", "d", "a", "y", ":", " ">>

LitBullet == <<"*", " ">>

LitOverview == <<"*", " ", "O", "v", "e", "r", "v", "i", "e", "w">>

LitLetsSee ==
    <<"L", "e", "t", "'", "s", " ", "s", "e", "e", " ", "a", " ", "q", "u",
      "i", "c", "k", " ", "e", "x", "a", "m", "p", "l", "e">>

LitExampleComplete ==
    <<"E", "x", "a", "m", "p", "l", "e", " ", "c", "o", "m", "p", "l", "e",
      "t", "e", " ", "-", " ", "n", "o", "t", "i", "c", "e", " ", "t", "h",
      "e", " ", "t", "r", "e", "n", "d">>

LitRecap == <<"R", "e", "c", "a", "p">>

LitKeyIdea1 == <<"*", " ", "K", "e", "y", " ", "i", "d", "e", "a", " ", "1">>

LitKeyIdea2 == <<"*", " ", "K", "e", "y", " ", "i", "d", "e", "a", " ", "2">>

LitLibsOmitted ==
    <<"E", "x", "t", "e", "r", "n", "a", "l", " ", "l", "i", "b", "r", "a",
      "r", "i", "e", "s", " ", "o", "m", "i", "t", "t", "e", "d", " ", "-",
      " ", "u", "s", "i", "n", "g", " ", "M", "a", "n", "i", "m", " ", "p",
      "r", "i", "m", "i", "t", "i", "v", "e", "s", " ", "o", "n", "l", "y">>

LitSyntaxSanitized ==
    <<"S", "y", "n", "t", "a", "x", " ", "e", "r", "r", "o", "r", " ", "s",
      "a", "n", "i", "t", "i", "z", "e", "d", ":", " ">>

\* The facts _verify_scene_structure reads off the syntax tree.
Structures ==
    [manimImport : BOOLEAN,    \* a top-level import of manim
     lesson : BOOLEAN,         \* a top-level class named Lesson
     sceneBase : BOOLEAN,      \* a base of Lesson whose name ends with Scene
     construct : BOOLEAN,      \* Lesson defines construct
     selfCall : BOOLEAN,       \* construct calls self.play/say/add/wait
     say : BOOLEAN,            \* Lesson defines say
     sayArgs : BOOLEAN,        \* say takes (self, text, t, ...)
     sayDefault : BOOLEAN]     \* t defaults to the constant 2

\* _verify_scene_structure: the errors it lists; `ok` is their absence.
VerifySceneStructure(st) ==
    LET imp == IF st.manimImport THEN {} ELSE {"import"}
    IN  IF ~st.lesson THEN imp \cup {"lesson"}
        ELSE imp
             \cup (IF st.sceneBase THEN {} ELSE {"base"})
             \cup (IF st.construct /\ ~st.selfCall THEN {"animation"} ELSE {})
             \cup (IF st.say /\ ~st.sayArgs THEN {"sayArgs"} ELSE {})
             \cup (IF st.say /\ st.sayArgs /\ ~st.sayDefault THEN {"sayDefault"} ELSE {})
             \cup (IF st.construct THEN {} ELSE {"construct"})
             \cup (IF st.say THEN {} ELSE {"say"})

\* The scene both fallback generators write: import, class Lesson(Scene),
\* say(self, text: str, t: float = 2), construct with self.play.
FallbackStructure ==
    [manimImport |-> TRUE, lesson |-> TRUE, sceneBase |-> TRUE, construct |-> TRUE,
     selfCall |-> TRUE, say |-> TRUE, sayArgs |-> TRUE, sayDefault |-> TRUE]

\* A source text: who wrote it, its string literals, its structure.
Source(origin, literals, st) == [origin |-> origin, literals |-> literals, structure |-> st]

\* ast.parse succeeds.
Parses(src) == \A k \in 1..Len(src.literals) : LiteralOk(src.literals[k])

\* ast.parse succeeds and _verify_scene_structure reports no error.
ValidScene(src) == Parses(src) /\ VerifySceneStructure(src.structure) = {}

\* _fallback_lesson(msg)
FallbackLesson(msg) ==
    Source("lesson", <<LitLesson, EscapeQuotes(msg), LitAutoGenerated>>, FallbackStructure)

\* A title or an outline as the module dict holds it: a str / a list of
\* str, None, absent, or a value of another JSON type.
Titles == {[kind |-> "str", text |-> s] : s \in Texts}
              \cup {[kind |-> k, text |-> <<>>] : k \in {"none", "number"}}

\* The outline entries the model draws: an empty one, a plain one, a quote.
Bullets == {<<>>, <<"t">>, <<Quote>>}

Outlines == {[kind |-> "list", items |-> o] : o \in SeqsUpTo(Bullets, MaxOutline)}
                \cup {[kind |-> k, items |-> <<>>] : k \in {"absent", "none", "number"}}

FallbackModules == [title : Titles, outline : Outlines]

\* The modules write_manim_code is followed on: one of each kind of title
\* and outline.
WriterModules ==
    [title : {t \in Titles : t.text \in {<<>>, <<"t">>, <<Quote>>}},
     outline : {o \in Outlines : Len(o.items) <= 1}]

\* `(module.get("title") or "Lesson").replace(...)`
TutorialTitle(module) ==
    IF module.title.kind = "none" \/ module.title.text = <<>>
    THEN LitLesson
    ELSE EscapeQuotes(module.title.text)

NonEmpty(s) == s # <<>>

\* `[str(b) for b in outline if b]`, the first four, quotes escaped.
TutorialBullets(module) ==
    LET kept == SelectSeq(module.outline.items, NonEmpty)
        cut == SubSeq(kept, 1, Min(MaxBullets, Len(kept)))
    IN  [k \in 1..Len(cut) |-> EscapeQuotes(cut[k])]

\* _fallback_tutorial raises: str.replace on a title that is no str
\* (AttributeError), iteration over an outline that is no list (TypeError).
TutorialRaises(module) ==
    module.title.kind = "number" \/ module.outline.kind = "number"

\* _fallback_tutorial(module), when it does not raise.
FallbackTutorial(module) ==
    LET title == TutorialTitle(module)
        bullets == TutorialBullets(module)
        blines == IF bullets = <<>>
                  THEN <<LitOverview>>
                  ELSE [k \in 1..Len(bullets) |-> LitBullet \o bullets[k]]
    IN  Source("tutorial",
               <<title, LitToday \o title>> \o blines
                   \o <<LitLetsSee, LitExampleComplete, LitRecap, LitKeyIdea1, LitKeyIdea2>>,
               FallbackStructure)

\* What str(e) of a syntax error can look like: plain words, a quoted token
\* ("'(' was never closed"), a backslash escape ("truncated \xXX escape").
SyntaxMessages == {<<"t">>, <<Quote>>, <<Backslash, "x">>}

\* The structures drafts are drawn from: those a syntax tree can show.
DraftStructures ==
    {st \in Structures :
        /\ st.sceneBase => st.lesson
        /\ st.construct => st.lesson
        /\ st.selfCall => st.construct
        /\ st.say => st.lesson
        /\ st.sayArgs => st.say
        /\ st.sayDefault => st.sayArgs}

\* What _extract_manim_code leaves of a reply: nothing, or a code text of
\* which the checks read these facts.
Drafts ==
    [code : BOOLEAN,                            \* the extracted text is not empty
     banned : BOOLEAN,                          \* it imports a denylisted module
     syntax : {None} \cup {Some(m) : m \in SyntaxMessages},  \* ast.parse raises
     structure : DraftStructures,
     markers : BOOLEAN]                         \* it holds "self.play(", "write(", ...

EmptyDraft ==
    [code |-> FALSE, banned |-> FALSE, syntax |-> None,
     structure |-> [manimImport |-> FALSE, lesson |-> FALSE, sceneBase |-> FALSE,
                    construct |-> FALSE, selfCall |-> FALSE, say |-> FALSE,
                    sayArgs |-> FALSE, sayDefault |-> FALSE],
     markers |-> FALSE]

\* The gateway call of one attempt: openrouter_chat raises (transient errors
\* exhausted, or a fatal error), or returns a text.
GatewayOutcomes ==
    {[kind |-> "raised", draft |-> EmptyDraft]}
        \cup {[kind |-> "text", draft |-> d] : d \in {x \in Drafts : x.code} \cup {EmptyDraft}}

\* _ensure_say_helper: a text with "class Lesson" and without "def say(" gets
\* the standard helper, which holds self.play(FadeIn(...)).
EnsureSayHelper(d) ==
    IF d.structure.lesson /\ ~d.structure.say
    THEN [d EXCEPT !.structure.say = TRUE, !.structure.sayArgs = TRUE,
                   !.structure.sayDefault = TRUE, !.markers = TRUE]
    ELSE d

\* _has_banned_imports: False when the text does not parse.
HasBannedImports(d) == d.syntax = None /\ d.banned

NoFeedback == [kind |-> "none", errors |-> {}, msg |-> <<>>]

\* (mutant) the checks of one attempt without the import screening.
VerdictUnscreened(draft) ==
    LET d == EnsureSayHelper(draft)
        errors == VerifySceneStructure(d.structure)
    IN  IF ~draft.code THEN [kind |-> "empty", errors |-> {}, msg |-> <<>>]
        ELSE IF d.syntax # None THEN [kind |-> "syntax", errors |-> {}, msg |-> d.syntax.val]
        ELSE IF errors # {} THEN [kind |-> "structure", errors |-> errors, msg |-> <<>>]
        ELSE IF ~d.markers THEN [kind |-> "noanim", errors |-> {}, msg |-> <<>>]
        ELSE [kind |-> "ok", errors |-> {}, msg |-> <<>>]

\* The checks of one attempt in their order (manim_writer.py:344-392): the
\* rejection and the feedback it leaves, "noanim", or "ok".
Verdict(draft) ==
    LET d == EnsureSayHelper(draft)
        errors == VerifySceneStructure(d.structure)
    IN  IF ~draft.code THEN [kind |-> "empty", errors |-> {}, msg |-> <<>>]
        ELSE IF HasBannedImports(d) THEN [kind |-> "banned", errors |-> {}, msg |-> <<>>]
        ELSE IF d.syntax # None THEN [kind |-> "syntax", errors |-> {}, msg |-> d.syntax.val]
        ELSE IF errors # {} THEN [kind |-> "structure", errors |-> errors, msg |-> <<>>]
        ELSE IF ~d.markers THEN [kind |-> "noanim", errors |-> {}, msg |-> <<>>]
        ELSE [kind |-> "ok", errors |-> {}, msg |-> <<>>]

\* manim_prompt raises inside the `try`: "; ".join over an outline that is
\* no list of str.
ManimPromptRaises(module) == module.outline.kind \in {"none", "number"}

WriterReturned(src) == [kind |-> "returned", source |-> src]

\* `return _fallback_tutorial(module)`
ReturnTutorial(module) ==
    IF TutorialRaises(module) THEN Raised ELSE WriterReturned(FallbackTutorial(module))

\* What write_manim_code returns on a verdict that ends it.
WriterOutcome(module, draft, v) ==
    IF v.kind = "ok"
    THEN WriterReturned(Source("model", <<>>, EnsureSayHelper(draft).structure))
    ELSE IF v.kind = "banned" THEN WriterReturned(FallbackLesson(LitLibsOmitted))
    ELSE IF v.kind = "syntax" THEN WriterReturned(FallbackLesson(LitSyntaxSanitized \o v.msg))
    ELSE ReturnTutorial(module)

WriterFrame == UNCHANGED <<gwVars, permitVars, casVars, buildVars, fbVars, sylVars, handlerVars,
    storeVars, backoffVars, pmVars>>

WriterInit ==
    /\ wModule \in WriterModules
    /\ wPc = "attempt"
    /\ wAttempt = 1
    /\ wFeedback = NoFeedback
    /\ wCalls = <<>>
    /\ wVerdicts = <<>>
    /\ wFinal = EmptyDraft
    /\ wResult = NoResult

WriterRest ==
    /\ wModule \in {m \in WriterModules : m.title.kind = "none" /\ m.outline.kind = "absent"}
    /\ wPc = "attempt"
    /\ wAttempt = 1
    /\ wFeedback = NoFeedback
    /\ wCalls = <<>>
    /\ wVerdicts = <<>>
    /\ wFinal = EmptyDraft
    /\ wResult = NoResult

\* (mutant) one attempt more than max_attempts.
LastAttemptLate == wAttempt > MaxAttempts

\* `if attempt >= max_attempts`
LastAttempt == wAttempt >= MaxAttempts

\* The checks on the draft of the running attempt, and what follows: the
\* code or a fallback is returned, or the next attempt starts with the
\* rejection as feedback.
Judged(draft) ==
    LET v == Verdict(draft)
    IN  /\ wVerdicts' = Append(wVerdicts, v)
        /\ IF v.kind \in {"ok", "noanim"} \/ LastAttempt
           THEN /\ wPc' = "done"
                /\ wResult' = WriterOutcome(wModule, draft, v)
                /\ wFinal' = (IF v.kind = "ok" THEN EnsureSayHelper(draft) ELSE EmptyDraft)
                /\ UNCHANGED <<wAttempt, wFeedback>>
           ELSE /\ wPc' = "attempt"
                /\ wAttempt' = wAttempt + 1
                /\ wFeedback' = v
                /\ UNCHANGED <<wResult, wFinal>>

\* An attempt starts: the prompt is built with the feedback at hand and
\* openrouter_chat is awaited; a prompt that cannot be built counts as an
\* empty reply.
WriterAttempt ==
    /\ wPc = "attempt"
    /\ WriterFrame
    /\ UNCHANGED wModule
    /\ IF ManimPromptRaises(wModule)
       THEN Judged(EmptyDraft) /\ UNCHANGED wCalls
       ELSE /\ wPc' = "call"
            /\ wCalls' = Append(wCalls, wFeedback)
            /\ UNCHANGED <<wAttempt, wFeedback, wVerdicts, wFinal, wResult>>

\* openrouter_chat ends; a raise leaves raw = "".
WriterReply ==
    /\ wPc = "call"
    /\ WriterFrame
    /\ UNCHANGED <<wModule, wCalls>>
    /\ \E o \in GatewayOutcomes : Judged(o.draft)

WriterNext ==
    \/ WriterAttempt
    \/ WriterReply

\* The messages write_manim_code hands to _fallback_lesson.
LessonMessages ==
    {LitLibsOmitted} \cup {LitSyntaxSanitized \o m : m \in SyntaxMessages}

RestModule ==
    [title |-> [kind |-> "none", text |-> <<>>],
     outline |-> [kind |-> "absent", items |-> <<>>]]

\* A call of one of the two generators.
FallbackCalls ==
    {[gen |-> "tutorial", module |-> m, msg |-> <<>>] : m \in FallbackModules}
        \cup {[gen |-> "lesson", module |-> RestModule, msg |-> m] : m \in LessonMessages}

FbFrame == UNCHANGED <<gwVars, permitVars, casVars, buildVars, writerVars, sylVars, handlerVars,
    storeVars, backoffVars, pmVars>>

FbInit ==
    /\ fbArg \in FallbackCalls
    /\ fbResult = NoResult

FbRest ==
    /\ fbArg = [gen |-> "tutorial", module |-> RestModule, msg |-> <<>>]
    /\ fbResult = NoResult

\* _fallback_tutorial(module) is called.
CallFallbackTutorial ==
    /\ fbArg.gen = "tutorial"
    /\ fbResult = NoResult
    /\ FbFrame
    /\ fbResult' = ReturnTutorial(fbArg.module)
    /\ UNCHANGED fbArg

\* _fallback_lesson(msg) is called.
CallFallbackLesson ==
    /\ fbArg.gen = "lesson"
    /\ fbResult = NoResult
    /\ FbFrame
    /\ fbResult' = WriterReturned(FallbackLesson(fbArg.msg))
    /\ UNCHANGED fbArg

FbNext ==
    \/ CallFallbackTutorial
    \/ CallFallbackLesson

(***************************************************************************)
(* Syllabus stage: nodes/syllabus.py, generate_syllabus as a function of   *)
(* the gateway's reply and the count_modules constraint.                   *)
(***************************************************************************)

SyllabusReturned(ids) == [kind |-> "returned", ids |-> ids]

SylFrame == UNCHANGED <<gwVars, permitVars, casVars, buildVars, writerVars, fbVars, handlerVars,
    storeVars, backoffVars, pmVars>>

SylInit ==
    /\ sReply \in SyllabusReplies
    /\ sCount \in CountArgs
    /\ sResult = NoResult

SylRest ==
    /\ sReply = [kind |-> "error", ids |-> <<>>]
    /\ sCount = [kind |-> "absent", val |-> 0]
    /\ sResult = NoResult

\* generate_syllabus returns the fallback syllabus.
SyllabusFallback ==
    /\ sResult = NoResult
    /\ ~SyllabusRaises(sReply, sCount)
    /\ UsesFallback(sReply)
    /\ SylFrame
    /\ sResult' = SyllabusReturned(GenerateSyllabus(sReply, CountValue(sCount)))
    /\ UNCHANGED <<sReply, sCount>>

\* generate_syllabus returns the entries of the reply.
SyllabusGenerated ==
    /\ sResult = NoResult
    /\ ~SyllabusRaises(sReply, sCount)
    /\ ~UsesFallback(sReply)
    /\ SylFrame
    /\ sResult' = SyllabusReturned(GenerateSyllabus(sReply, CountValue(sCount)))
    /\ UNCHANGED <<sReply, sCount>>

\* An exception leaves generate_syllabus.
SyllabusFails ==
    /\ sResult = NoResult
    /\ SyllabusRaises(sReply, sCount)
    /\ SylFrame
    /\ sResult' = Raised
    /\ UNCHANGED <<sReply, sCount>>

SylNext ==
    \/ SyllabusFallback
    \/ SyllabusGenerated
    \/ SyllabusFails


(***************************************************************************)
(* Persistence: persist_convex.py.  The backend calls are followed by      *)
(* their outcome; each is logged in the order it is sent.                  *)
(***************************************************************************)

\* Longest module list handed to persist_course_and_modules.
MaxStored == 2

\* The artifacts handed over, by what the function reads of them: the id,
\* whether gemini_output holds an image, and the video_path (null, a file,
\* or a path whose file is gone).  Two of them share an id.
StoredModules ==
    {[id |-> "m1", image |-> TRUE, video |-> "mp4"],
     [id |-> "m1", image |-> FALSE, video |-> "gone"],
     [id |-> "m2", image |-> TRUE, video |-> "null"],
     [id |-> "m2", image |-> FALSE, video |-> "mp4"],
     [id |-> "m3", image |-> FALSE, video |-> "null"]}

\* A call sent to the backend: the operation, the module it is for (0 for
\* the course) and whether it succeeded.
BackendCall(op, k, ok) == [op |-> op, module |-> k, ok |-> ok]

\* `storage_ids[str(mid)] = {...}`
StoragePut(d, id, image, video) == DictPut(d, [id |-> id, image |-> image, video |-> video])

\* The in-memory fallback (persist_convex.py:176-184): every id in order,
\* the image and video_path of each module as they came.
RECURSIVE InMemoryStorage(_, _)
InMemoryStorage(d, mods) ==
    IF mods = <<>> THEN d
    ELSE InMemoryStorage(
             StoragePut(d, Head(mods).id,
                        IF Head(mods).image THEN "b64" ELSE "none",
                        IF Head(mods).video = "null" THEN "none" ELSE "path"),
             Tail(mods))

Persisted(course, ids, storage) ==
    [kind |-> "returned", course_id |-> course, module_ids |-> ids, storage_ids |-> storage]

InMemoryResult(mods) ==
    Persisted("none", [k \in 1..Len(mods) |-> mods[k].id], InMemoryStorage(<<>>, mods))

StoreFrame ==
    UNCHANGED <<gwVars, permitVars, casVars, buildVars, writerVars, fbVars, sylVars,
                handlerVars, backoffVars, pmVars>>

StoreInit ==
    /\ psEnabled \in BOOLEAN
    /\ psOwner \in BOOLEAN
    /\ psExisting \in BOOLEAN
    /\ psModules \in SeqsUpTo(StoredModules, MaxStored)
    /\ psPc = "start"
    /\ psIdx = 0
    /\ psCourseId = "none"
    /\ psCreate = "none"
    /\ psCalls = <<>>
    /\ psModuleIds = <<>>
    /\ psStorage = <<>>
    /\ psResult = NoResult

StoreRest ==
    /\ psEnabled = FALSE
    /\ psOwner = FALSE
    /\ psExisting = FALSE
    /\ psModules = <<>>
    /\ psPc = "start"
    /\ psIdx = 0
    /\ psCourseId = "none"
    /\ psCreate = "none"
    /\ psCalls = <<>>
    /\ psModuleIds = <<>>
    /\ psStorage = <<>>
    /\ psResult = NoResult

StoreSet(pc, idx, course, create, calls, ids, storage, result) ==
    /\ psPc' = pc
    /\ psIdx' = idx
    /\ psCourseId' = course
    /\ psCreate' = create
    /\ psCalls' = calls
    /\ psModuleIds' = ids
    /\ psStorage' = storage
    /\ psResult' = result
    /\ UNCHANGED <<psEnabled, psOwner, psExisting, psModules>>

\* Where the loop goes when the course id is settled.
LoopEntry == IF psModules = <<>> THEN "finalize" ELSE "image"

\* The function up to its module loop.  Without the backend or without an
\* owner the in-memory fallback returns at once.  Else the course id is the
\* existing one, or that of courses:createDetailed (a reply without an id
\* leaves it None), or, that call having raised, that of courses:create.
StoreStart ==
    /\ psPc = "start"
    /\ StoreFrame
    /\ IF ~(psEnabled /\ psOwner)
       THEN StoreSet("done", 0, "none", "none", <<>>,
                     InMemoryResult(psModules).module_ids,
                     InMemoryResult(psModules).storage_ids,
                     InMemoryResult(psModules))
       ELSE IF psExisting
       THEN StoreSet(LoopEntry, 1, "existing", "existing", <<>>, <<>>, <<>>, NoResult)
       ELSE \E detailed \in {"id", "noId", "raise"}, minimal \in {"id", "noId", "raise"} :
               LET c1 == BackendCall("createDetailed", 0, detailed # "raise")
                   c2 == BackendCall("create", 0, minimal # "raise")
               IN  IF detailed = "id"
                   THEN StoreSet(LoopEntry, 1, "created", "detailed", <<c1>>, <<>>, <<>>,
                                 NoResult)
                   ELSE IF detailed = "noId"
                   THEN StoreSet(LoopEntry, 1, "none", "noId", <<c1>>, <<>>, <<>>, NoResult)
                   ELSE IF minimal = "id"
                   THEN StoreSet(LoopEntry, 1, "created", "minimal", <<c1, c2>>, <<>>, <<>>,
                                 NoResult)
                   ELSE StoreSet(LoopEntry, 1, "none",
                                 IF minimal = "raise" THEN "bothRaised" ELSE "noId",
                                 <<c1, c2>>, <<>>, <<>>, NoResult)

\* convex_generate_upload_url then convex_put_bytes for one file of module
\* k: the calls sent and the storage id obtained ("none" when the URL call
\* failed, when reading or decoding the bytes raised before the upload, or
\* when the upload failed; all of it caught).
Uploads(k) ==
    {[calls |-> <<BackendCall("generateUploadUrl", k, FALSE)>>, sid |-> "none"],
     [calls |-> <<BackendCall("generateUploadUrl", k, TRUE)>>, sid |-> "none"],
     [calls |-> <<BackendCall("generateUploadUrl", k, TRUE), BackendCall("put", k, FALSE)>>,
      sid |-> "none"],
     [calls |-> <<BackendCall("generateUploadUrl", k, TRUE), BackendCall("put", k, TRUE)>>,
      sid |-> "sid"]}

\* A loop iteration up to the image: the id is appended, the storage entry
\* is reset and the image, if there is one, is uploaded.
StoreImage ==
    /\ psPc = "image"
    /\ StoreFrame
    /\ LET m == psModules[psIdx]
           ids == Append(psModuleIds, m.id)
       IN  IF m.image
           THEN \E up \in Uploads(psIdx) :
                   StoreSet("video", psIdx, psCourseId, psCreate, psCalls \o up.calls, ids,
                            StoragePut(psStorage, m.id, up.sid, "none"), NoResult)
           ELSE StoreSet("video", psIdx, psCourseId, psCreate, psCalls, ids,
                         StoragePut(psStorage, m.id, "none", "none"), NoResult)

\* The video is uploaded when video_path names a file that exists.
StoreVideo ==
    /\ psPc = "video"
    /\ StoreFrame
    /\ LET m == psModules[psIdx]
           entry == CHOOSE e \in {psStorage[j] : j \in 1..Len(psStorage)} : e.id = m.id
       IN  IF m.video = "mp4"
           THEN \E up \in Uploads(psIdx) :
                   StoreSet("upsert", psIdx, psCourseId, psCreate, psCalls \o up.calls,
                            psModuleIds, StoragePut(psStorage, m.id, entry.image, up.sid),
                            NoResult)
           ELSE StoreSet("upsert", psIdx, psCourseId, psCreate, psCalls, psModuleIds,
                         psStorage, NoResult)

\* (mutant) a loop that a failed upsert leaves.
AfterUpsertBreaking(ok) ==
    IF ok /\ psIdx < Len(psModules) THEN "image" ELSE "finalize"

\* Where the loop goes after modules:upsert, whether it succeeded or raised.
AfterUpsert(ok) ==
    IF psIdx < Len(psModules) THEN "image" ELSE "finalize"

\* modules:upsert is sent for the module, with the course id as it is; an
\* exception is passed over.
StoreUpsert ==
    /\ psPc = "upsert"
    /\ StoreFrame
    /\ \E ok \in BOOLEAN :
          StoreSet(AfterUpsert(ok),
                   IF AfterUpsert(ok) = "image" THEN psIdx + 1 ELSE psIdx,
                   psCourseId, psCreate,
                   Append(psCalls, BackendCall("upsert", psIdx, ok)),
                   psModuleIds, psStorage, NoResult)

\* courses:finalize is sent when there is a course id; the result is
\* returned.
StoreFinalize ==
    /\ psPc = "finalize"
    /\ StoreFrame
    /\ \E ok \in BOOLEAN :
          StoreSet("done", psIdx, psCourseId, psCreate,
                   IF psCourseId # "none"
                   THEN Append(psCalls, BackendCall("finalize", 0, ok))
                   ELSE psCalls,
                   psModuleIds, psStorage,
                   Persisted(psCourseId, psModuleIds, psStorage))

StoreNext ==
    \/ StoreStart
    \/ StoreImage
    \/ StoreVideo
    \/ StoreUpsert
    \/ StoreFinalize


(***************************************************************************)
(* The backoff schedule of openrouter_chat: llm.py.  Times are counted in  *)
(* tenths of a second.                                                     *)
(***************************************************************************)

\* Largest number of attempts (`retries`) of the call followed.
MaxBackoffRetries == 8

\* `base: float = 0.8`, in tenths of a second.
BackoffBase == 8

\* `cap: float = 20.0`, in tenths of a second.
BackoffCap == 200

\* `random.uniform(0, 0.3)`: the largest jitter, in tenths of a second.
MaxJitter == 3

RECURSIVE Pow2(_)
Pow2(n) == IF n = 0 THEN 1 ELSE 2 * Pow2(n - 1)

\* `base * (2 ** (attempt - 1))`
BackoffExp(attempt) == BackoffBase * Pow2(attempt - 1)

\* (mutant) the cap applied to the exponential term, the jitter added last.
BackoffDelayJitterLast(attempt, jitter) == Min(BackoffCap, BackoffExp(attempt)) + jitter

\* _backoff_delay: `min(cap, exp + jitter)`
BackoffDelay(attempt, jitter) == Min(BackoffCap, BackoffExp(attempt) + jitter)

BackoffFrame ==
    UNCHANGED <<gwVars, permitVars, casVars, buildVars, writerVars, fbVars, sylVars,
                handlerVars, storeVars, pmVars>>

\* A call whose every attempt fails with a retryable error.
BackoffInit ==
    /\ boRetries \in 1..MaxBackoffRetries
    /\ boAttempt = 0
    /\ boDelays = <<>>

BackoffRest ==
    /\ boRetries = 1
    /\ boAttempt = 0
    /\ boDelays = <<>>

\* The next attempt fails with a retryable error and
\* `asyncio.sleep(_backoff_delay(attempt))` is awaited, unless it was the
\* last attempt (`attempt >= retries`: the error is raised).
BackoffSleep ==
    /\ boAttempt + 1 < boRetries
    /\ \E jitter \in 0..MaxJitter :
          boDelays' = Append(boDelays, [jitter |-> jitter,
                                        delay |-> BackoffDelay(boAttempt + 1, jitter)])
    /\ boAttempt' = boAttempt + 1
    /\ UNCHANGED boRetries
    /\ BackoffFrame

\* The last attempt fails: the error is raised without a sleep.
BackoffGivesUp ==
    /\ boAttempt + 1 = boRetries
    /\ boAttempt' = boRetries
    /\ UNCHANGED <<boRetries, boDelays>>
    /\ BackoffFrame

BackoffNext ==
    \/ BackoffSleep
    \/ BackoffGivesUp


(***************************************************************************)
(* The permits the tasks of one build take: graph.py (fan-out, compile     *)
(* tasks), llm.py (openrouter_chat), nodes/gemini_image.py (the image      *)
(* call and its Q&A fallback), compile_manim.py (_limit_parallelism).      *)
(***************************************************************************)

\* Largest capacity of a permit set the model draws.
MaxPmCapacity == 2

\* Largest attempt budget (LLM_MAX_RETRIES, GEMINI_MAX_RETRIES) the model draws.
MaxPmRetries == 2

\* The permit sets: _sem_openrouter, _gemini_sem, _compile_sem.
Permits == {"gw", "gm", "cm"}

\* The modules of the build, by module_id.
PmModules == {"m1", "m2"}

\* What runs for a build: generate_syllabus, then per module write_text,
\* write_manim_code and generate_gemini_image_or_fallback (the two children
\* of asyncio.gather), and the module's compile job.
Acts == {<<"course", "syllabus">>} \cup (PmModules \X {"text", "code", "image", "job"})

TextOf(a) == <<a[1], "text">>

PmFrame ==
    UNCHANGED <<gwVars, permitVars, casVars, buildVars, writerVars, fbVars, sylVars,
                handlerVars, storeVars, backoffVars>>

\* The semaphores hold their capacity (max(1, size)) when they are made;
\* generate_syllabus is about to call the gateway.
PmInit ==
    /\ pmCap \in [Permits -> 1..MaxPmCapacity]
    /\ pmRetries \in {[p \in {"gw", "gm"} |-> n] : n \in 0..MaxPmRetries}
    /\ pmStage = "running"
    /\ pmPc = [a \in Acts |-> IF a[2] = "syllabus" THEN "acquire" ELSE "idle"]
    /\ pmAttempt = [a \in Acts |-> 0]
    /\ pmRound = [a \in Acts |-> 0]
    /\ pmHeld = [a \in Acts |-> {}]
    /\ pmFree = pmCap

PmRest ==
    /\ pmCap = [p \in Permits |-> 1]
    /\ pmRetries = [p \in {"gw", "gm"} |-> 1]
    /\ pmStage = "running"
    /\ pmPc = [a \in Acts |-> IF a[2] = "syllabus" THEN "acquire" ELSE "idle"]
    /\ pmAttempt = [a \in Acts |-> 0]
    /\ pmRound = [a \in Acts |-> 0]
    /\ pmHeld = [a \in Acts |-> {}]
    /\ pmFree = [p \in Permits |-> 1]

\* process_module has its text: gather has started both children.
Started(a) == a[2] \in {"code", "image"} /\ pmPc[a] = "idle" /\ pmPc[TextOf(a)] = "done"

\* asyncio.gather has returned every artifact: the compile tasks exist.
FanoutOver ==
    \A m \in PmModules : pmPc[<<m, "code">>] = "done" /\ pmPc[<<m, "image">>] = "done"

\* The activity is at the entry of `async with sem` of openrouter_chat, of
\* `async with _gemini_sem`, or at sem.acquire() of _limit_parallelism.
\* generate_gemini_image_or_fallback starts with the image call or, images
\* not wanted or the client not available, with the Q&A call.
AtEntry(a, p) ==
    IF p = "gw" THEN pmPc[a] = "acquire" \/ Started(a)
    ELSE IF p = "gm" THEN a[2] = "image" /\ Started(a)
    ELSE a[2] = "job" /\ pmPc[a] = "idle" /\ FanoutOver /\ pmStage # "failed"

\* The permit is taken / given back.
Take(a, p) ==
    /\ pmFree' = [pmFree EXCEPT ![p] = @ - 1]
    /\ pmHeld' = [pmHeld EXCEPT ![a] = @ \cup {p}]

Give(a, p) ==
    /\ pmFree' = [pmFree EXCEPT ![p] = @ + 1]
    /\ pmHeld' = [pmHeld EXCEPT ![a] = @ \ {p}]

\* (mutant) the Q&A fallback started inside `async with _gemini_sem`.
GiveLate(a, p) == UNCHANGED <<pmFree, pmHeld>>

\* (mutant) an exit of the guarded section that skips the release.
GiveOnSuccess(a, p, how) == IF how = "success" THEN Give(a, p) ELSE GiveLate(a, p)

\* `async with sem` / `finally: sem.release()`: every exit gives the permit back.
GiveOnExit(a, p, how) == Give(a, p)

\* (mutant) a release written after the guarded call instead of in `finally`.
ReleaseUnlessRaised(a, p, how) == IF how = "exception" THEN GiveLate(a, p) ELSE Give(a, p)

\* `try: yield / finally: sem.release()` of _limit_parallelism.
ReleaseInFinally(a, p, how) == Give(a, p)

\* `async with _gemini_sem` is left before the Q&A fallback is reached.
GiveBeforeFallback(a, p) == Give(a, p)

\* Where an activity goes when its gateway call has ended.  A first draft of
\* write_manim_code may be rejected, and is when the call gave nothing;
\* then a second call follows.  Every caller catches what the call raises.
AfterChat(a, how) ==
    IF a[2] = "code" /\ pmRound[a] + 1 < MaxAttempts
    THEN IF how = "success" THEN {"acquire", "done"} ELSE {"acquire"}
    ELSE {"done"}

\* openrouter_chat returns or raises: the activity moves on.  When
\* generate_syllabus has ended, the fan-out starts with every write_text, or
\* the build fails on the syllabus.
ChatEnds(a, how) ==
    /\ pmAttempt' = [pmAttempt EXCEPT ![a] = 0]
    /\ IF a[2] = "syllabus"
       THEN /\ pmRound' = [pmRound EXCEPT ![a] = 0]
            /\ \/ /\ pmPc' = [b \in Acts |->
                                  IF b = a THEN "done"
                                  ELSE IF b[2] = "text" THEN "acquire" ELSE pmPc[b]]
                  /\ UNCHANGED pmStage
               \/ /\ pmPc' = [pmPc EXCEPT ![a] = "done"]
                  /\ pmStage' = "failed"
       ELSE /\ \E next \in AfterChat(a, how) :
                  /\ pmPc' = [pmPc EXCEPT ![a] = next]
                  /\ pmRound' = [pmRound EXCEPT ![a] = IF next = "done" THEN 0 ELSE @ + 1]
            /\ UNCHANGED pmStage

\* `async with sem:` is entered; with an attempt budget of 0 the loop body
\* never runs and "" is returned at once.
ChatEnter(a) ==
    /\ AtEntry(a, "gw")
    /\ pmFree["gw"] > 0
    /\ PmFrame
    /\ IF pmRetries["gw"] = 0
       THEN /\ ChatEnds(a, "empty")
            /\ UNCHANGED <<pmFree, pmHeld>>
       ELSE /\ Take(a, "gw")
            /\ pmPc' = [pmPc EXCEPT ![a] = "call"]
            /\ pmAttempt' = [pmAttempt EXCEPT ![a] = 1]
            /\ UNCHANGED <<pmStage, pmRound>>
    /\ UNCHANGED <<pmCap, pmRetries>>

\* One backend attempt ends: text, a fatal error, or a transient one, which
\* is re-raised on the last attempt and otherwise slept on, the permit
\* held, before the next attempt starts.
ChatAttempt(a) ==
    /\ pmPc[a] = "call"
    /\ PmFrame
    /\ \E out \in {"success", "fatal", "transient"} :
          LET how == IF out = "transient" THEN "exhausted" ELSE out
          IN  IF out = "transient" /\ pmAttempt[a] < pmRetries["gw"]
              THEN /\ pmAttempt' = [pmAttempt EXCEPT ![a] = @ + 1]
                   /\ UNCHANGED <<pmFree, pmHeld, pmStage, pmPc, pmRound>>
              ELSE /\ GiveOnExit(a, "gw", how)
                   /\ ChatEnds(a, how)
    /\ UNCHANGED <<pmCap, pmRetries>>

\* `async with _gemini_sem:` is entered; with a budget of 0 the loop body
\* never runs, RuntimeError is raised and the Q&A fallback follows.
ImageEnter(a) ==
    /\ AtEntry(a, "gm")
    /\ pmFree["gm"] > 0
    /\ PmFrame
    /\ IF pmRetries["gm"] = 0
       THEN /\ pmPc' = [pmPc EXCEPT ![a] = "acquire"]
            /\ UNCHANGED <<pmFree, pmHeld, pmAttempt>>
       ELSE /\ Take(a, "gm")
            /\ pmPc' = [pmPc EXCEPT ![a] = "gcall"]
            /\ pmAttempt' = [pmAttempt EXCEPT ![a] = 1]
    /\ UNCHANGED <<pmCap, pmRetries, pmStage, pmRound>>

\* One attempt of the image call ends: a response with or without an image,
\* a fatal error or a transient one (slept on, the permit held, while the
\* budget lasts).  Without an image the Q&A fallback
\* calls the gateway, outside `async with _gemini_sem`.
ImageAttempt(a) ==
    /\ pmPc[a] = "gcall"
    /\ PmFrame
    /\ \E out \in {"image", "noimage", "fatal", "transient"} :
          IF out = "transient" /\ pmAttempt[a] < pmRetries["gm"]
          THEN /\ pmAttempt' = [pmAttempt EXCEPT ![a] = @ + 1]
               /\ UNCHANGED <<pmFree, pmHeld, pmPc>>
          ELSE IF out = "image"
          THEN /\ Give(a, "gm")
               /\ pmPc' = [pmPc EXCEPT ![a] = "done"]
               /\ pmAttempt' = [pmAttempt EXCEPT ![a] = 0]
          ELSE /\ GiveBeforeFallback(a, "gm")
               /\ pmPc' = [pmPc EXCEPT ![a] = "acquire"]
               /\ pmAttempt' = [pmAttempt EXCEPT ![a] = 0]
    /\ UNCHANGED <<pmCap, pmRetries, pmStage, pmRound>>

\* `sem.acquire()` of _limit_parallelism returns in the job's thread.
PmJobEnter(a) ==
    /\ AtEntry(a, "cm")
    /\ pmFree["cm"] > 0
    /\ PmFrame
    /\ Take(a, "cm")
    /\ pmPc' = [pmPc EXCEPT ![a] = "inside"]
    /\ UNCHANGED <<pmCap, pmRetries, pmStage, pmAttempt, pmRound>>

\* compile_manim_to_mp4 leaves the guarded section with a path, with None or
\* with an exception; the as_completed loop of the build raises on the
\* exception and returns (after persistence) when it has awaited every job.
PmJobExit(a) ==
    /\ pmPc[a] = "inside"
    /\ PmFrame
    /\ \E how \in {"path", "null", "exception"} :
          /\ ReleaseInFinally(a, "cm", how)
          /\ pmPc' = [pmPc EXCEPT ![a] = "done"]
          /\ pmStage' =
                IF pmStage # "running" THEN pmStage
                ELSE IF how = "exception" THEN "raised"
                ELSE IF \A m \in PmModules : <<m, "job">> # a => pmPc[<<m, "job">>] = "done"
                THEN "returned"
                ELSE pmStage
    /\ UNCHANGED <<pmCap, pmRetries, pmAttempt, pmRound>>

PmNext ==
    \E a \in Acts :
        \/ ChatEnter(a)
        \/ ChatAttempt(a)
        \/ ImageEnter(a)
        \/ ImageAttempt(a)
        \/ PmJobEnter(a)
        \/ PmJobExit(a)


GatewayInit == GwInit /\ PermitRest /\ CasRest /\ BuildRest /\ WriterRest /\ FbRest /\ SylRest /\ HandlerRest
    /\ StoreRest /\ BackoffRest /\ PmRest

SpecGateway == GatewayInit /\ [][GwNext]_vars

PermitSetInit == PermitInit /\ GwRest /\ CasRest /\ BuildRest /\ WriterRest /\ FbRest /\ SylRest /\ HandlerRest
    /\ StoreRest /\ BackoffRest /\ PmRest

SpecPermit == PermitSetInit /\ [][PermitNext]_vars

CascadeInit == CasInit /\ GwRest /\ PermitRest /\ BuildRest /\ WriterRest /\ FbRest /\ SylRest /\ HandlerRest
    /\ StoreRest /\ BackoffRest /\ PmRest

SpecCascade == CascadeInit /\ [][CasNext]_vars

\* A job whose thread keeps being scheduled: every step that can be taken is
\* taken (a process with a timeout exits or is killed when it expires).
SpecCascadeLive == CascadeInit /\ [][CasNext]_vars /\ WF_vars(CasNext)

PipelineInit == BuildInit /\ GwRest /\ PermitRest /\ CasRest /\ WriterRest /\ FbRest /\ SylRest /\ HandlerRest
    /\ StoreRest /\ BackoffRest /\ PmRest

Spec == PipelineInit /\ [][BuildNext]_vars

WriterStartInit == WriterInit /\ GwRest /\ PermitRest /\ CasRest /\ BuildRest /\ FbRest /\ SylRest /\ HandlerRest
    /\ StoreRest /\ BackoffRest /\ PmRest

SpecWriter == WriterStartInit /\ [][WriterNext]_vars

FallbackInit == FbInit /\ GwRest /\ PermitRest /\ CasRest /\ BuildRest /\ WriterRest /\ SylRest /\ HandlerRest
    /\ StoreRest /\ BackoffRest /\ PmRest

SpecFallback == FallbackInit /\ [][FbNext]_vars

EndToEndInit == OfflineInit /\ GwRest /\ PermitRest /\ CasRest /\ WriterRest /\ FbRest /\ SylRest /\ HandlerRest
    /\ StoreRest /\ BackoffRest /\ PmRest

SpecEndToEnd == EndToEndInit /\ [][OfflineNext]_vars

ServiceInit ==
    HandlerInit /\ GwRest /\ PermitRest /\ CasRest /\ WriterRest /\ FbRest /\ SylRest
    /\ StoreRest /\ BackoffRest /\ PmRest

SpecHandler == ServiceInit /\ [][HandlerNext]_vars

PersistenceInit ==
    StoreInit /\ GwRest /\ PermitRest /\ CasRest /\ BuildRest /\ WriterRest /\ FbRest /\ SylRest
    /\ HandlerRest /\ BackoffRest /\ PmRest

SpecStore == PersistenceInit /\ [][StoreNext]_vars

ScheduleInit ==
    BackoffInit /\ GwRest /\ PermitRest /\ CasRest /\ BuildRest /\ WriterRest /\ FbRest /\ SylRest
    /\ HandlerRest /\ StoreRest /\ PmRest

SpecBackoff == ScheduleInit /\ [][BackoffNext]_vars

TasksInit == PmInit /\ GwRest /\ PermitRest /\ CasRest /\ BuildRest /\ WriterRest /\ FbRest /\ SylRest
    /\ HandlerRest /\ StoreRest /\ BackoffRest

SpecTasks == TasksInit /\ [][PmNext]_vars

\* Every backend attempt, sleep and job ends, and the loop and the worker
\* threads keep running what can run.
SpecTasksLive == TasksInit /\ [][PmNext]_vars /\ WF_vars(PmNext)

SyllabusInit == SylInit /\ GwRest /\ PermitRest /\ CasRest /\ BuildRest /\ WriterRest /\ FbRest /\ HandlerRest
    /\ StoreRest /\ BackoffRest /\ PmRest

SpecSyllabus == SyllabusInit /\ [][SylNext]_vars

(***************************************************************************)
(* Claims about the gateway, checked under SpecGateway.                    *)
(***************************************************************************)

Holders == {c \in Calls : chatHolds[c]}

\* C4: at most `capacity` (LLM_CONCURRENCY, default 3, minimum 1) calls are
\* between permit acquisition and release at any time, and a call holds its
\* permit during every one of its attempts and backoff sleeps.
C4_GatewayBounded ==
    /\ Cardinality(Holders) <= LlmCapacity
    /\ \A c \in Calls : chatPc[c] \in {"call", "sleep"} => chatHolds[c]

\* A call waits for a permit while every permit is taken and a holder sleeps.
C4_Witness ==
    \E c, d \in Calls :
        /\ chatPc[c] = "acquire"
        /\ semOpenrouter.val = 0
        /\ Cardinality(Holders) = LlmCapacity
        /\ chatPc[d] = "sleep"

\* C5: when the backend raised on the first k attempts and answers attempt
\* k+1, with k below the attempt budget, the call returns the answer's text
\* after exactly k+1 backend attempts and k backoff sleeps; no error reaches
\* the caller.
C5_RetryThenSuccess ==
    \A c \in Calls :
        (chatPc[c] = "done" /\ backendReply[c].kind = "ok") =>
            /\ backendFails[c] < Retries
            /\ chatResult[c] = [kind |-> "returned", text |-> backendReply[c].text]
            /\ backendCalls[c] = backendFails[c] + 1
            /\ chatSleeps[c] = backendFails[c]

\* A call that returned text after two transient failures.
C5_Witness ==
    \E c \in Calls :
        /\ chatPc[c] = "done"
        /\ backendReply[c] = [kind |-> "ok", text |-> "text"]
        /\ backendFails[c] = 2
        /\ IsRetryableError(chatLastErr[c].val)

\* C6: an error that matches none of the transient signatures propagates from
\* the attempt that raised it: the call has ended with that error, no further
\* attempt was issued, no sleep followed it, and the permit is released.
C6_FatalPropagates ==
    \A c \in Calls :
        (backendReply[c].kind = "error" /\ ~IsRetryableError(backendReply[c].err)) =>
            /\ chatPc[c] = "done"
            /\ chatResult[c] = [kind |-> "raised", err |-> backendReply[c].err]
            /\ backendCalls[c] = backendFails[c]
            /\ chatSleeps[c] = backendFails[c] - 1
            /\ ~chatHolds[c]
            /\ semOpenrouter.val = LlmCapacity - Cardinality(Holders)

\* A fatal error on the second attempt, with budget left.
C6_Witness ==
    \E c \in Calls :
        /\ backendReply[c] = [kind |-> "error", err |-> ErrBadKey]
        /\ backendFails[c] = 2
        /\ Retries > 2
        /\ chatPc[c] = "done"

\* C7: when every backend attempt of a call raised a retryable error, the
\* call made exactly max_retries attempts (5 by default), slept max_retries - 1
\* times and raised the error of the last attempt.
C7_Exhausted ==
    \A c \in Calls :
        (/\ chatPc[c] = "done"
         /\ backendCalls[c] >= 1
         /\ backendFails[c] = backendCalls[c]
         /\ backendReply[c].kind = "error"
         /\ IsRetryableError(backendReply[c].err)) =>
            /\ backendCalls[c] = Retries
            /\ chatSleeps[c] = Retries - 1
            /\ chatResult[c] = [kind |-> "raised", err |-> backendReply[c].err]

\* The default budget is exhausted: five attempts, the last error raised.
C7_Witness ==
    \E c \in Calls :
        /\ envLlmMaxRetries = EnvUnset
        /\ chatPc[c] = "done"
        /\ backendCalls[c] = DefaultLlmMaxRetries
        /\ backendFails[c] = DefaultLlmMaxRetries
        /\ chatSleeps[c] = DefaultLlmMaxRetries - 1
        /\ chatResult[c] = [kind |-> "raised", err |-> ErrTimedOut]

(***************************************************************************)
(* Claims about the compile permit set, checked under SpecPermit.          *)
(***************************************************************************)

InsideJobs == {t \in Jobs : jobPc[t] = "inside"}

\* C3: with compile capacity N (MANIM_MAX_PARALLEL, default 2, minimum 1), at
\* no point are more than N invocations of compile_manim_to_mp4 inside the
\* permit-guarded section, for any number of jobs submitted concurrently from
\* worker threads, the first jobs of the process included.
C3_CompileBounded == Cardinality(InsideJobs) <= CompileCapacity

(***************************************************************************)
(* Claims about the strategy cascade, checked under SpecCascade.           *)
(***************************************************************************)

Tried(name) == \E i \in 1..Len(casTried) : casTried[i] = name

LocalAvailable == casEnv.useLocal /\ casEnv.localCmd

PlaceholderAvailable == casEnv.usePlaceholder /\ casEnv.ffmpeg

CasEnded == casPc = "done"

\* C8, first part: a job that ended without finding output has attempted the
\* local strategy when the container is unavailable or disabled (and local
\* is enabled), and the placeholder strategy when container and local are
\* both unavailable (and the placeholder is enabled).
C8_FallsThrough ==
    (CasEnded /\ casResult = Returned(None) /\ ~DockerAvailable(casEnv)) =>
        /\ casEnv.useLocal => Tried("local")
        /\ (~LocalAvailable /\ casEnv.usePlaceholder) => Tried("placeholder")

\* C8, second part: with all three strategies unavailable, or failing
\* without leaving an output file, the job returns null.
C8_NullWhenNothing ==
    (CasEnded /\ casResult.kind = "returned" /\ casFiles = {}) =>
        casResult = Returned(None)

\* C8, third part: compile_manim_to_mp4 never raises to its caller, whether
\* working-directory allocation, source writing or a strategy fails.
C8_NeverRaises == casResult # Raised

\* C8: the whole claim.
C8_CascadeDegrades == C8_FallsThrough /\ C8_NullWhenNothing /\ C8_NeverRaises

(***************************************************************************)
(* Claims about the pipeline orchestrator, checked under Spec.             *)
(***************************************************************************)

NonDecreasing(s) == \A i \in 1..(Len(s) - 1) : s[i] <= s[i + 1]

\* C1: in every build, whichever executor drives it and also when the
\* engine run is abandoned part-way for the direct executor, the percentages
\* passed to the progress callback are non-decreasing, and when the build
\* returns a package the last one passed is 100.
C1_ProgressMonotone ==
    /\ NonDecreasing(bReports)
    /\ (bStage = "returned" /\ bCb # "none") =>
           (bReports # <<>> /\ bReports[Len(bReports)] = 100)

AfterFanout == bStage \in {"compile", "persist", "returned"}

OnePerSpec(mods) ==
    /\ Len(mods) = Len(bSyllabus)
    /\ \A i \in 1..Len(bSyllabus) :
          Cardinality({j \in 1..Len(mods) : mods[j].spec = i}) = 1

UniqueIds(mods) == \A j, k \in 1..Len(mods) : j # k => mods[j].id # mods[k].id

\* C2: for every syllabus the syllabus stage returns (generated or fallback),
\* after fan-out and after compile the modules collection holds exactly one
\* artifact per syllabus entry, no two artifacts share a module id, and
\* count_modules of the returned package is the number of syllabus entries.
C2_OneArtifactPerSpec ==
    /\ AfterFanout => (OnePerSpec(bModules) /\ UniqueIds(bModules))
    /\ bStage = "returned" => bPackage.val.count_modules = Len(bSyllabus)

JobFailed(i) == bJob[i].state \in {"null", "raised"}

\* C9: when the compile job of a module fails, by returning None or by an
\* error inside the job, the build is not aborted; the package it returns
\* was persisted with every module, the failed module's artifact has a null
\* video reference and the other modules keep their compile results.
C9_CompileFailureTolerated ==
    /\ (\E i \in 1..Len(bJob) : JobFailed(i)) => bStage # "raised"
    /\ bStage = "returned" =>
          LET mods == bPackage.val.modules
          IN  /\ mods = bPersist[Len(bPersist)].modules
              /\ \A i \in 1..Len(bJob) :
                    \E j \in 1..Len(mods) :
                        mods[j].spec = bJob[i].spec /\ mods[j].video = bJob[i].state

OtherPath == IF bPath = "engine" THEN "direct" ELSE "engine"

\* What a persist call shows to the persistence collaborator.
PersistArgs(call) == [modules |-> call.modules, owner |-> call.owner]

\* C11: the two executors are observably identical: the arguments a build
\* passes to persist_course_and_modules (module list and its order, owner
\* id) are those the other executor passes for the same compiled artifacts,
\* and the package returned holds the same module list.
C11_ExecutorsAgree ==
    bStage \in {"persist", "returned"} =>
        LET call == bPersist[Len(bPersist)]
        IN  /\ PersistArgs(call) = PersistArgs(PersistCall(OtherPath, bItems))
            /\ bStage = "returned" =>
                   bPackage.val.modules = PersistList(OtherPath, bItems)

(***************************************************************************)
(* Claims about code synthesis, checked under SpecFallback and SpecWriter. *)
(***************************************************************************)

\* C12: the source either fallback generator returns, for every module
\* title and outline and every message, parses as Python and passes
\* _verify_scene_structure.
C12_FallbackValid ==
    fbResult # NoResult =>
        (fbResult.kind = "returned" /\ ValidScene(fbResult.source))

Rejections == {"empty", "banned", "syntax", "structure"}

\* C13: write_manim_code never raises to its caller: whatever the gateway
\* does and whatever the checks find, it ends by returning a source, and
\* that source is a fallback scene unless the last draft passed validation.
C13_WriterNeverRaises ==
    wPc = "done" =>
        /\ wResult.kind = "returned"
        /\ wVerdicts[Len(wVerdicts)].kind # "ok" =>
               wResult.source.origin \in {"tutorial", "lesson"}

FirstIds(n) == [i \in 1..n |-> FallbackIds[i]]

\* C15: generate_syllabus never fails: for every gateway outcome, every
\* shape of reply that holds no list-valued "modules" and every value of
\* the count_modules constraint it returns the fallback syllabus m1..mN
\* with N in 1..10.
C15_SyllabusNeverFails ==
    sResult # NoResult =>
        /\ sResult.kind = "returned"
        /\ ~ModulesIsList(sReply) =>
               \E n \in 1..MaxCountModules : sResult.ids = FirstIds(n)

\* C16: the fallback syllabus has 6 entries when no count_modules is given
\* and min(10, max(1, c)) entries for every integer c, 0 and negative
\* values included, with ids m1..mN in order.
C16_FallbackCount ==
    (sResult # NoResult /\ sResult.kind = "returned" /\ UsesFallback(sReply)) =>
        /\ sCount.kind = "absent" => sResult.ids = FirstIds(DefaultCountModules)
        /\ sCount.kind = "int" =>
               sResult.ids = FirstIds(Min(MaxCountModules, Max(1, sCount.val)))

(***************************************************************************)
(* The build without any generative service, checked under SpecEndToEnd.   *)
(***************************************************************************)

\* str(i) for the numbers of the fallback syllabus.
ModuleNumbers == <<"1", "2", "3", "4", "5", "6", "7", "8", "9", "10">>

LitModule == <<"M", "o", "d", "u", "l", "e", " ">>

LitIntroduction == <<"I", "n", "t", "r", "o", "d", "u", "c", "t", "i", "o", "n">>

LitCoreConcepts == <<"C", "o", "r", "e", " ", "C", "o", "n", "c", "e", "p", "t", "s">>

LitWorkedExample ==
    <<"W", "o", "r", "k", "e", "d", " ", "E", "x", "a", "m", "p", "l", "e">>

LitPractice == <<"P", "r", "a", "c", "t", "i", "c", "e">>

\* Entry i of the fallback syllabus for `topic`: title f"Module {i}: {topic}"
\* and the stock outline of five items.
FallbackEntry(i, topic) ==
    [title |-> [kind |-> "str",
                text |-> LitModule \o <<ModuleNumbers[i]>> \o <<":", " ">> \o topic],
     outline |-> [kind |-> "list",
                  items |-> <<LitIntroduction, LitCoreConcepts, LitWorkedExample,
                              LitPractice, LitRecap>>]]

\* The code an artifact of the build holds: the fallback tutorial of its
\* entry, or a draft that passed validation.
ArtifactSource(art, topic) ==
    IF art.code = "tutorial"
    THEN FallbackTutorial(FallbackEntry(art.spec, topic))
    ELSE Source("model", <<>>, FallbackStructure)

\* C17: with every generative call unavailable and the placeholder video
\* available, a build with default constraints that returns has returned
\* exactly the six modules m1..m6, each with a non-empty text, a source that
\* parses (whatever the topic) and a video path that is not null.
C17_OfflineBuildComplete ==
    bStage = "returned" =>
        LET mods == bPackage.val.modules
        IN  /\ Len(mods) = DefaultCountModules
            /\ {mods[k].id : k \in 1..Len(mods)} = {FallbackIds[i] : i \in 1..DefaultCountModules}
            /\ \A k \in 1..Len(mods) :
                  /\ ~TextEmpty(mods[k].text)
                  /\ mods[k].video = "mp4"
                  /\ \A topic \in Texts : Parses(ArtifactSource(mods[k], topic))

\* All of C17 but the sources: six modules m1..m6 with text and video.
C17_AllButSource ==
    bStage = "returned" =>
        LET mods == bPackage.val.modules
        IN  /\ Len(mods) = DefaultCountModules
            /\ {mods[k].id : k \in 1..Len(mods)} = {FallbackIds[i] : i \in 1..DefaultCountModules}
            /\ \A k \in 1..Len(mods) :
                  /\ ~TextEmpty(mods[k].text)
                  /\ mods[k].video = "mp4"

C17_Witness ==
    /\ bStage = "returned"
    /\ bOffline
    /\ Len(bPackage.val.modules) = DefaultCountModules

(***************************************************************************)
(* The progress callback, checked under Spec.                              *)
(***************************************************************************)

\* The build has raised out of `report`: the callback's call failed inside
\* it (the direct executor reports 5 before anything else can fail).
AbortedByCallback == bStage = "raised" /\ ReportRaises("direct")

\* C18: a failure of the progress callback never aborts the build: no build
\* ends with the exception of a report.
C18_CallbackFailureTolerated == ~AbortedByCallback

\* A callback whose failure stays inside its task: the build returns.
C18_AsyncCallbackReturns == bCb = "async" /\ bStage = "returned" /\ bReports # <<>>

(***************************************************************************)
(* The request handlers, checked under SpecHandler.                        *)
(***************************************************************************)

\* C19: once build_course_graph has returned or raised, every callback task
\* its reports created has run, and none runs afterwards.
C19_CallbacksBeforeReturn == BuildEnded => (cbRan = Len(bReports) /\ ~cbLate)

\* The reports of 95 and 100 are still pending when the package is returned.
C19_PendingAtReturn ==
    /\ bStage = "returned"
    /\ Len(bReports) - cbRan >= 2
    /\ bReports[Len(bReports)] = 100

\* Whenever the package has been returned, the task of the last report is
\* still pending or has run after the return.
C19_AlwaysPendingAtReturn == bStage = "returned" => (cbRan < Len(bReports) \/ cbLate)

\* C20: when the build has raised and ai_build has ended, the request has
\* failed with an error, the course record has status "failed" and the
\* thread record has status "failed".
C20_SingleFailureSignal ==
    (hPc = "done" /\ bStage = "raised") =>
        /\ hResponse = "error"
        /\ hCourse.status = "failed"
        /\ hThread.status = "failed"

\* The request of a build that raised fails with an error and the error is
\* kept in the thread record.
C20_RequestFails ==
    (hPc = "done" /\ bStage = "raised") => (hResponse = "error" /\ hThread.error)

\* The thread record never has status "failed", so no stream ends on it.
C20_ThreadNeverFailed == hThread.status # "failed"

C20_Witness == hPc = "done" /\ bStage = "raised" /\ hResponse = "error"

(***************************************************************************)
(* Claims about persistence, checked under SpecStore.                      *)
(***************************************************************************)

\* The calls of operation `op` sent for module k.
CallsFor(op, k) == {j \in 1..Len(psCalls) : psCalls[j].op = op /\ psCalls[j].module = k}

\* C21: persist_course_and_modules never raises, and whatever upload-URL
\* call, upload or upsert failed, its result lists the id of every input
\* module once, in input order; with the backend in use every module has had
\* its upsert sent.
C21_ModuleFailuresIsolated ==
    /\ psResult.kind \in {"none", "returned"}
    /\ psPc = "done" =>
          /\ psResult.kind = "returned"
          /\ psResult.module_ids = [k \in 1..Len(psModules) |-> psModules[k].id]
          /\ (psEnabled /\ psOwner) =>
                \A k \in 1..Len(psModules) : Cardinality(CallsFor("upsert", k)) = 1

C21_Witness ==
    /\ psPc = "done"
    /\ Len(psModules) = MaxStored
    /\ \E j \in CallsFor("upsert", 1) : ~psCalls[j].ok
    /\ \E j \in CallsFor("generateUploadUrl", 1) : ~psCalls[j].ok

\* Both create calls have failed.
CreationFailed == psCreate = "bothRaised"

\* C22: when course creation has failed, no upload, upsert or finalize call
\* is sent, and the result is that of the in-memory fallback.
C22_CreationFailureDegrades ==
    CreationFailed =>
        /\ \A j \in 1..Len(psCalls) : psCalls[j].op \in {"createDetailed", "create"}
        /\ psPc = "done" => psResult = InMemoryResult(psModules)

\* After a failed course creation no finalize call is sent and the result
\* carries no course id.
C22_NoFinalize ==
    CreationFailed =>
        /\ \A j \in 1..Len(psCalls) : psCalls[j].op # "finalize"
        /\ psPc = "done" => psResult.course_id = "none"

C22_Witness == CreationFailed /\ psPc = "done" /\ psModules # <<>>

(***************************************************************************)
(* The order of the stages, checked under Spec.                            *)
(***************************************************************************)

\* The place of a stage on the path syllabus, fan-out, compile, persist.
StageRank(stage) ==
    CASE stage = "init" -> 0
      [] stage = "syllabus" -> 1
      [] stage = "fanout" -> 2
      [] stage = "compile" -> 3
      [] stage = "persist" -> 4
      [] OTHER -> 5

\* A step that stays on the forward path: the stage does not go back, the
\* executor once chosen is kept (so generate_syllabus is not awaited again)
\* and persist_course_and_modules is called at most once.
ForwardStep ==
    /\ StageRank(bStage') >= StageRank(bStage)
    /\ bPath # "none" => bPath' = bPath
    /\ Len(bPersist') <= 1

\* C23: the stages of a build run once each on a single forward path, under
\* the executor chosen at the start.
C23_SingleForwardPath == [][ForwardStep]_vars

\* Without the engine every build stays on the forward path.
C23_DirectForwardPath == [][bEngine = "missing" => ForwardStep]_vars

\* persist_course_and_modules has been called twice in one build.
C23_PersistedTwice == Len(bPersist) = 2

(***************************************************************************)
(* The order of the work on one module, checked under Spec.                *)
(***************************************************************************)

\* The moves of a module task: the text, then code and image side by side
\* in either order, then the artifact (or the exception of building it).
TaskMoves ==
    {<<"text", "gen">>, <<"gen", "code">>, <<"gen", "image">>,
     <<"code", "done">>, <<"image", "done">>, <<"code", "raised">>, <<"image", "raised">>}

\* A step moves the tasks of the running fan-out along TaskMoves only.
TaskStep ==
    Len(bTask') = Len(bTask) =>
        \A i \in 1..Len(bTask) : bTask'[i] # bTask[i] => <<bTask[i], bTask'[i]>> \in TaskMoves

\* A compile job exists only for a module whose task has returned its code.
JobsAfterCode == \A j \in 1..Len(bJob) : bTask[bJob[j].spec] = "done"

\* Persistence has started only with every compile job completed.
PersistAfterJobs ==
    bStage \in {"persist", "returned"} =>
        \A j \in 1..Len(bJob) : bJob[j].state \in {"mp4", "null"}

LastReports(n) == SubSeq(bReports, Len(bReports) - n + 1, Len(bReports))

DelaysNonDecreasing ==
    \A k \in 1..(Len(boDelays) - 1) : boDelays[k].delay <= boDelays[k + 1].delay

\* C26: the delay after failed attempt k is the exponential term capped at
\* 20 s plus the jitter drawn, and the delays of a call never decrease.
C26_BackoffCapPlusJitter ==
    /\ \A k \in 1..Len(boDelays) :
          boDelays[k].delay = Min(BackoffCap, BackoffBase * Pow2(k - 1)) + boDelays[k].jitter
    /\ DelaysNonDecreasing

\* C26 (amended): the delay after failed attempt k is the exponential term
\* plus the jitter drawn, the sum capped at 20 s; no delay exceeds 20 s and
\* the delays of a call never decrease.
C26_BackoffSumCapped ==
    /\ \A k \in 1..Len(boDelays) :
          LET sum == BackoffBase * Pow2(k - 1) + boDelays[k].jitter
          IN  /\ boDelays[k].delay = (IF sum <= BackoffCap THEN sum ELSE BackoffCap)
              /\ boDelays[k].delay <= BackoffCap
    /\ DelaysNonDecreasing

\* A capped delay with a jitter drawn above zero, after an uncapped one.
C26_Witness ==
    /\ Len(boDelays) >= 6
    /\ boDelays[5].delay < BackoffCap
    /\ boDelays[6].delay = BackoffCap
    /\ boDelays[6].jitter > 0


(***************************************************************************)
(* C27, C28: the order and the end of the strategy cascade.                *)
(***************************************************************************)

Strategies == {"docker", "local", "placeholder"}

\* How many times a strategy was attempted in this job.
Attempts(name) == Cardinality({i \in 1..Len(casTried) : casTried[i] = name})

\* All attempted strategies failed: the job returned None.
AllFailed == CasEnded /\ casResult = Returned(None)

EachStrategyOnce == \A name \in Strategies : Attempts(name) <= 1

\* The strategies attempted by a job in which all fail are fixed by the
\* enable flags alone, whatever the preference: local iff enabled,
\* placeholder iff enabled, the container only when its CLI is available.
SameSetEitherWay ==
    AllFailed =>
        /\ Tried("local") <=> casEnv.useLocal
        /\ Tried("placeholder") <=> casEnv.usePlaceholder
        /\ Tried("docker") => DockerAvailable(casEnv)

\* C27: the local-first preference changes only the order of the cascade:
\* for every setting of the flags each of the three strategies is attempted
\* at most once per job, and the set attempted when all fail does not depend
\* on the preference.
C27_PreferenceOnlyReorders == EachStrategyOnce /\ SameSetEitherWay

\* What holds: without the preference each strategy is attempted at most
\* once, and the set attempted when all fail is the same either way.
C27_OnceWithoutPreference ==
    /\ ~(casEnv.preferLocal /\ casEnv.useLocal) => EachStrategyOnce
    /\ Attempts("docker") <= 1
    /\ Attempts("placeholder") <= 1
    /\ Attempts("local") <= 2
    /\ SameSetEitherWay

\* The local renderer was run twice for one job.
C27_LocalRanTwice == casEnv.localCmd /\ Attempts("local") = 2


\* A strategy returned the path of an output file.
Yielded == casResult \in {Returned(Some(p)) : p \in OutputPlaces}

\* Once a strategy has yielded an output nothing more is attempted or written.
NoLaterStrategy == Yielded => UNCHANGED <<casTried, casFiles, casResult>>

\* The returned path is a file of the working directory, left by the last
\* strategy attempted or found by the closing lookup.
ReturnedPathExists ==
    \A p \in OutputPlaces : casResult = Returned(Some(p)) => p \in casFiles

\* C28: the cascade stops at the first strategy that yields an output file:
\* no later strategy is run and that strategy's output is returned; the job
\* returns a path if and only if an output file exists at one of the two
\* known places of its working directory.
C28_StopsAtFirstOutput ==
    /\ [](ReturnedPathExists /\ (CasEnded => (Yielded <=> casFiles # {})))
    /\ [][NoLaterStrategy]_vars

\* What holds: the same for every job that returns instead of raising.
C28_StopsWhenReturning ==
    /\ [](ReturnedPathExists
          /\ (CasEnded /\ casResult # Raised => (Yielded <=> casFiles # {})))
    /\ [][NoLaterStrategy]_vars

\* A job raised although an output file lay in its working directory.
C28_RaisedWithOutput == casResult = Raised /\ casFiles # {}


(***************************************************************************)
(* C29: what the compile stage and persistence change in the artifacts.    *)
(***************************************************************************)

\* An artifact without its video reference.
ButVideo(mart) ==
    [id |-> mart.id, spec |-> mart.spec, text |-> mart.text, code |-> mart.code,
     aux |-> mart.aux]

\* The same artifacts up to order and video reference.
SameModules(a, b) ==
    /\ Len(a) = Len(b)
    /\ \A i \in 1..Len(a) :
          Cardinality({j \in 1..Len(a) : ButVideo(a[j]) = ButVideo(a[i])})
              = Cardinality({j \in 1..Len(b) : ButVideo(b[j]) = ButVideo(a[i])})

\* A step of the compile stage of one executor.
CompileStep ==
    /\ bStage = "compile"
    /\ bPath' = bPath
    /\ bStage' \in {"compile", "persist"}

\* The step is the completion of exactly job i, which appends the artifact
\* of its own module with nothing but the video reference changed.
OwnArtifactOnly(i) ==
    /\ bJob[i].state = "running"
    /\ bJob'[i].state # "running"
    /\ \A k \in 1..Len(bJob) : k # i => bJob'[k] = bJob[k]
    /\ bItems' = Append(bItems, [bModules[i] EXCEPT !.video = bJob'[i].state])

\* C29: artifacts are only added to: a step of the compile stage completes
\* one job, which sets the video reference of its own module's artifact and
\* changes nothing else (id, title and outline, text, source code and
\* auxiliary descriptor stay, as does the set of modules), and persistence
\* modifies no artifact.
C29_OnlyVideoAdded ==
    [][/\ CompileStep =>
            /\ SameModules(bModules, bModules')
            /\ \E i \in 1..Len(bJob) : OwnArtifactOnly(i)
       /\ (bStage = "persist" /\ bStage' = "returned" =>
            /\ bModules' = bModules
            /\ bItems' = bItems
            /\ bPackage' = Some([count_modules |-> Len(bPersist[Len(bPersist)].modules),
                                 modules |-> bPersist[Len(bPersist)].modules]))]_vars

\* A build returned whose jobs completed out of order, one with a path and
\* one without, the code of its artifacts still the model's.
C29_Witness ==
    /\ bStage = "returned"
    /\ Len(bModules) >= 2
    /\ bModules[1].spec > bModules[2].spec
    /\ bModules[1].video # bModules[2].video
    /\ \A i \in 1..Len(bModules) : bModules[i].code = "model" /\ bModules[i].aux = "gim"


(***************************************************************************)
(* C30: a draft without animation calls, checked under SpecWriter.         *)
(***************************************************************************)

\* Attempt k found a draft that passed import screening, parsing and the
\* structural verification but holds no animation marker.
NoAnimationAt(k) == k \in 1..Len(wVerdicts) /\ wVerdicts[k].kind = "noanim"

\* That attempt was the last one and no gateway call followed it.
EndsAt(k) == wPc = "done" /\ Len(wVerdicts) = k /\ Len(wCalls) = k

\* C30: when a draft passes import screening, parsing and structural
\* verification but contains no animation-producing call, the tutorial
\* fallback is returned on that attempt, the first one included, and no
\* further gateway call is made.
C30_NoAnimationTutorialAtOnce ==
    \A k \in 1..MaxAttempts :
        NoAnimationAt(k) =>
            /\ EndsAt(k)
            /\ wResult.kind = "returned"
            /\ wResult.source.origin = "tutorial"

\* What holds: the invocation ends on that attempt without a further call,
\* with the tutorial or with the exception its generator raised.
C30_NoFurtherCall ==
    \A k \in 1..MaxAttempts :
        NoAnimationAt(k) => EndsAt(k) /\ wResult = ReturnTutorial(wModule)

\* The first draft lacked animation calls and the invocation raised.
C30_RaisedOnFirstAttempt == NoAnimationAt(1) /\ EndsAt(1) /\ wResult = Raised


(***************************************************************************)
(* C31: what write_manim_code returns of the model's own code.             *)
(***************************************************************************)

ReturnedModelSource == wResult.kind = "returned" /\ wResult.source.origin = "model"

\* C31: write_manim_code returns model-produced source only if that source
\* passed every check of the attempt that returned it: it is not empty,
\* imports no denylisted module, parses, keeps the structural contract and
\* holds an animation call; no source with a denylisted import is returned
\* on any attempt.
C31_ModelSourceChecked ==
    ReturnedModelSource =>
        /\ wVerdicts[Len(wVerdicts)].kind = "ok"
        /\ wFinal.code
        /\ ~wFinal.banned
        /\ wFinal.syntax = None
        /\ VerifySceneStructure(wFinal.structure) = {}
        /\ wFinal.markers
        /\ wResult.source.structure = wFinal.structure

\* A first draft importing a denylisted module was rejected and the second
\* draft, free of it, was returned.
C31_Witness ==
    /\ ReturnedModelSource
    /\ Len(wVerdicts) = 2
    /\ wVerdicts[1].kind = "banned"
    /\ ~wFinal.banned


(***************************************************************************)
(* C32: termination of a compile job, checked under SpecCascadeLive.       *)
(***************************************************************************)

\* The job waits for an external process that never exits, inside
\* `with _limit_parallelism()`: its permit stays taken.
CasHung == casPc = "hung"

\* C32: every compile job terminates and releases its compile permit: every
\* external process a strategy starts is bounded by a timeout, so whatever
\* the processes do the job leaves the guarded section.
C32_JobTerminates == <>CasEnded

\* What holds: a job ends unless it waits for the placeholder's process.
C32_TerminatesUnlessPlaceholderHangs == <>(CasEnded \/ CasHung)

\* What holds: only the placeholder strategy can leave a job waiting.
C32_OnlyPlaceholderHangs ==
    CasHung => casTried[Len(casTried)] = "placeholder" /\ casEnv.ffmpeg


\* A job waits for the placeholder's process with no result and its permit
\* taken.
C32_PermitNeverReleased == CasHung /\ casResult = NoResult /\ Tried("placeholder")


(***************************************************************************)
(* C33, C34: the permits of a build's tasks, checked under SpecTasks.      *)
(***************************************************************************)

HoldersOf(p) == {a \in Acts : p \in pmHeld[a]}

\* The activity is blocked at the entry of a guarded section.
Waiting(a, p) == AtEntry(a, p) /\ pmFree[p] = 0

\* The activity is inside a guarded section and needs no permit to go on.
Running(a) == pmPc[a] \in {"call", "gcall", "inside"}

\* Each set counts its own holders only.
PermitsConserved == \A p \in Permits : pmFree[p] + Cardinality(HoldersOf(p)) = pmCap[p]

\* C33: the permit sets are independent and no task waits for a permit
\* while holding one: a task holds at most one permit at a time, it is at
\* the entry of a guarded section only with no permit in hand, and whoever
\* waits for a permit waits for holders that are running, so no circular
\* wait is reachable.
C33_NoHoldAndWait ==
    /\ PermitsConserved
    /\ \A a \in Acts :
          /\ Cardinality(pmHeld[a]) <= 1
          /\ \A p \in Permits :
                /\ AtEntry(a, p) => pmHeld[a] = {}
                /\ Waiting(a, p) => /\ HoldersOf(p) # {}
                                    /\ \A b \in HoldersOf(p) : Running(b)

\* A second synthesis call and a Q&A fallback wait for the gateway permit
\* another task holds, while the image call of a third holds its own.
C33_Witness ==
    \E a, b \in Acts :
        /\ a[2] = "code" /\ pmRound[a] = 1 /\ Waiting(a, "gw")
        /\ b[2] = "image" /\ pmPc[b] = "acquire" /\ Waiting(b, "gw")
        /\ HoldersOf("gm") # {}


\* No gateway call, image call or compile job is in progress.
Quiet == \A a \in Acts : ~Running(a)

\* C34: permits never leak: every exit of openrouter_chat (text, fatal
\* error, budget exhausted) and of compile_manim_to_mp4 (path, None,
\* exception) gives the permit back exactly once, so a permit is held only
\* by a call or job in progress, no set ever exceeds its capacity, and
\* whenever nothing is in progress every set has its full capacity free.
C34_NoPermitLeak ==
    /\ PermitsConserved
    /\ \A p \in Permits : pmFree[p] <= pmCap[p]
    /\ \A a \in Acts : pmHeld[a] # {} => Running(a)
    /\ Quiet => pmFree = pmCap

\* A build that raised on a job's exception, every call and job over, the
\* gateway calls having held permits: every set is full again.
C34_Witness ==
    /\ pmStage = "raised"
    /\ pmRetries["gw"] >= 1
    /\ \A a \in Acts : pmPc[a] = "done"
    /\ pmFree = pmCap


(***************************************************************************)
(* C35: progress updates after the terminal one, checked under SpecHandler.*)
(***************************************************************************)

\* ai_build has ended and its last _update_progress is in the course record.
TerminalRecorded ==
    /\ hPc = "done"
    /\ hCourse.progress = 100
    /\ hCourse.status = (IF hResponse = "ok" THEN "ready" ELSE "failed")

C35_OnlyPendingCallbacksFollow ==
    [][TerminalRecorded /\ (hCourse' # hCourse \/ hThread' # hThread) =>
          /\ cbRan' = cbRan + 1
          /\ cbLate'
          /\ hPc' = "done"]_vars

AbortedByTask ==
    /\ bStage = "raised"
    /\ \/ \E i \in 1..Len(bTask) : bTask[i] = "raised"
       \/ \E i \in 1..Len(bJob) : bJob[i].state = "raised"

\* Fan-out task i is still at work: write_text, write_manim_code or the
\* image call (each a user of the gateway) has not returned.
TaskAtWork(i) == bTask[i] \in {"text", "gen", "code", "image"}

\* Compile job i is still in its thread.
JobAtWork(i) == bJob[i].state = "running"

\* C36: when a build aborts because a fan-out or compile task raised, no
\* task of that build keeps running afterwards: no sibling fan-out task
\* goes on to call the gateway and no sibling compile job is running.
C36_NoTaskAfterAbort ==
    AbortedByTask =>
        /\ \A i \in 1..Len(bTask) : ~TaskAtWork(i)
        /\ \A i \in 1..Len(bJob) : ~JobAtWork(i)

\* What holds: after the abort the build itself does nothing more; it
\* reports nothing, persists nothing and creates no compile job.
C36_BuildItselfStops ==
    [][AbortedByTask =>
          /\ bStage' = "raised"
          /\ bReports' = bReports
          /\ bPersist' = bPersist
          /\ bJob' = bJob
          /\ bPackage' = bPackage]_vars

\* A sibling fan-out task is at work after the abort, with gateway calls
\* still to make.
C36_SiblingTaskRuns ==
    /\ AbortedByTask
    /\ \E i \in 1..Len(bTask) : TaskAtWork(i)

\* A sibling compile job is in its thread after the abort.
C36_SiblingJobRuns ==
    /\ AbortedByTask
    /\ \E i \in 1..Len(bJob) : JobAtWork(i)


(***************************************************************************)
(* C37: gateway failures in the code stage, checked under SpecWriter.      *)
(***************************************************************************)

\* write_manim_code has ended and the gateway gave it no text on any
\* attempt (openrouter_chat raised, leaving raw = "", or returned nothing).
GatewayGaveNothing ==
    /\ wPc = "done"
    /\ wCalls # <<>>
    /\ Len(wVerdicts) = Len(wCalls)
    /\ \A k \in 1..Len(wVerdicts) : wVerdicts[k].kind = "empty"

\* C37: no gateway error aborts a build: the code stage, like the syllabus,
\* text and auxiliary stages, replaces a failed call by its fallback, so
\* write_manim_code returns the tutorial scene to its fan-out task and the
\* module reaches the compile stage with an artifact.
C37_GatewayErrorNeverAborts ==
    GatewayGaveNothing =>
        /\ wResult.kind = "returned"
        /\ wResult.source.origin = "tutorial"

\* What holds: with a title and an outline the tutorial generator accepts,
\* the failed calls are replaced by the tutorial scene.
C37_FallbackWhenModuleIsText ==
    GatewayGaveNothing /\ ~TutorialRaises(wModule) =>
        /\ wResult.kind = "returned"
        /\ wResult.source.origin = "tutorial"

\* Both gateway calls failed and write_manim_code raised into the fan-out.
C37_RaisedAfterGatewayError ==
    /\ GatewayGaveNothing
    /\ Len(wCalls) = MaxAttempts
    /\ wResult = Raised


(***************************************************************************)
(* C38: termination of a build, checked under SpecTasksLive.               *)
(***************************************************************************)

\* build_course_graph has returned, or raised from the syllabus stage or
\* from a compile job.
BuildOver == pmStage \in {"returned", "raised", "failed"}

\* No activity is at the entry of a guarded section: whoever waited for a
\* permit has been admitted (an entry is left only by taking the permit,
\* or, with an attempt budget of 0, by passing through).
NobodyWaits == \A a \in Acts : \A p \in Permits : ~AtEntry(a, p)

\* C38: every build terminates, given that every backend attempt and every
\* external process returns or fails: build_course_graph eventually returns
\* or raises, every gateway call that waits for a permit is eventually
\* admitted and every compile job eventually runs, so that in the end
\* nothing waits and nothing is in progress, for every capacity of at
\* least 1 and every attempt budget.
C38_BuildTerminates == <>(BuildOver /\ NobodyWaits /\ Quiet)

\* A build with one permit in every set and the largest attempt budget has
\* returned with nothing left in progress.
C38_Witness ==
    /\ pmStage = "returned"
    /\ \A p \in Permits : pmCap[p] = 1
    /\ pmRetries["gw"] = MaxPmRetries
    /\ Quiet
    /\ \A a \in Acts : pmPc[a] = "done"


(***************************************************************************)
(* C39: the attempts of a gateway call, checked under SpecGateway.         *)
(***************************************************************************)

\* What call c has ended with matches what the backend did: text is
\* returned only from an attempt that succeeded, and otherwise the error of
\* the last attempt is raised.
EndsAsBackendDid(c) ==
    /\ backendCalls[c] >= 1
    /\ chatResult[c].kind = "returned" =>
          /\ backendReply[c].kind = "ok"
          /\ chatResult[c].text = backendReply[c].text
    /\ chatResult[c].kind = "raised" =>
          /\ backendReply[c].kind = "error"
          /\ chatResult[c].err = backendReply[c].err
    /\ chatResult[c].kind \in {"returned", "raised"}

\* C39: openrouter_chat makes at least one backend attempt whatever the
\* value of max_retries; it returns text only if some attempt succeeded and
\* raises otherwise, and never returns an empty result without having
\* called the backend.
C39_AtLeastOneAttempt ==
    \A c \in Calls : chatPc[c] = "done" => EndsAsBackendDid(c)

\* What holds: with an attempt budget of at least 1 every call ends as the
\* backend did, after at least one attempt.
C39_AttemptWithBudget ==
    \A c \in Calls : (chatPc[c] = "done" /\ Retries >= 1) => EndsAsBackendDid(c)

\* A call that returned "" and never called the backend.
C39_EmptyWithoutAttempt ==
    \E c \in Calls :
        /\ chatPc[c] = "done"
        /\ backendCalls[c] = 0
        /\ chatResult[c] = [kind |-> "returned", text |-> ""]


(***************************************************************************)
(* C40: persistence under an existing course id, checked under SpecStore   *)
(* (the function) and under Spec (the call each executor makes).           *)
(***************************************************************************)

CreationOps == {"createDetailed", "create"}

\* persist_course_and_modules was called with an existing course id, the
\* backend enabled and an owner id.
ExistingCourseCase == psExisting /\ psEnabled /\ psOwner

\* What holds of the function: in that case no course-creation call is
\* sent, modules:upsert and courses:finalize are sent with the existing id
\* (the id in hand is never another one), and the result names it.
C40_ExistingIdReused ==
    ExistingCourseCase =>
        /\ \A k \in 1..Len(psCalls) : psCalls[k].op \notin CreationOps
        /\ psPc # "start" => psCourseId = "existing" /\ psCreate = "existing"
        /\ psPc = "done" =>
              /\ psResult.course_id = "existing"
              /\ psCalls # <<>>
              /\ psCalls[Len(psCalls)].op = "finalize"

\* C40: a build started for an existing course persists its modules under
\* that course id with either executor and creates no second course: the
\* call of persist_course_and_modules it makes carries the owner id with
\* which the function takes the branch that writes to the store, where no
\* creation call is sent and every upsert and finalize carries the id.
C40_BothEnginesPersist ==
    \A k \in 1..Len(bPersist) : bOwner => bPersist[k].owner = "owner_id"

\* A build with an owner id has returned from the direct executor, whose
\* persistence call carried no owner: nothing was written under the course.
C40_DirectSkipsStore ==
    /\ bStage = "returned"
    /\ bOwner
    /\ bPath = "direct"
    /\ bPersist[Len(bPersist)].owner = "None"
    /\ bPersist[Len(bPersist)].modules # <<>>

====
